---------------------------- MODULE Spec2Model ----------------------------
(***************************************************************************)
(* Model of the TCL list encoder of phil-lib (src/tcl.ts).                 *)
(*                                                                         *)
(* A JavaScript string is modelled as the sequence of its UTF-16 code      *)
(* units (integers 0..65535), so "a b" is <<97, 32, 98>>.  A `character`   *)
(* handed out by Array.from(s) or by for..of is a string of one code unit, *)
(* or of two when it is a surrogate pair.                                  *)
(*                                                                         *)
(* A TclListable is a record [type, val]: type is what the dispatch of     *)
(* encodeTclListElement looks at ("string", "number", "boolean") or        *)
(* "list" for an Iterable<TclListable>, whose val is the sequence of its   *)
(* items.  Numbers are integers (the only numbers TLA+ has).               *)
(*                                                                         *)
(* The module also models AnimationLoop (src/client-misc.ts), and pick     *)
(* (src/misc.ts) and positiveModulo, each with a specification of its own. *)
(***************************************************************************)
EXTENDS Integers, Sequences, FiniteSets, TLC

VARIABLES
  list,               \* tclList's argument: a sequence of TclListable
  output,             \* what tclList(list) returned
  pc,                 \* "ready" before the call of tclList, "returned" after
  calls,              \* the calls of tclList made so far
  s,                  \* tclQuote's argument
  asArray,            \* tclQuote: Array.from(s)
  i,                  \* tclQuote: the scan's loop index (0-based as in the code)
  requireSlashQuote,  \* tclQuote: local flag
  requireBraceQuote,  \* tclQuote: local flag
  braceCount,         \* tclQuote: local counter
  result,             \* tclQuote: the slash quoting pass's buffer, then the return value
  todo,               \* tclQuote: code points the slash quoting pass still has to visit
  qpc,                \* tclQuote: "idle", "scan", "afterScan", "slash", "returned"
  remembered,         \* an earlier call kept by the caller: <<>> or <<s, result>>
  stack,              \* each thread's call stack: the frames of tclList and tclQuote
  call,               \* each thread's outermost call: [fn, arg]
  status,             \* each thread: "idle", "running" or "returned"
  returnValue,        \* each thread: what its outermost call returned
  overlap,            \* each thread: it took a step of this call while the other ran
  constructed,        \* AnimationLoop: the constructor has run
  cancelled,          \* AnimationLoop: #cancelled
  pendingFrames,      \* requestAnimationFrame: callbacks requested and not yet delivered
  clock,              \* the time of the latest frame
  events,             \* AnimationLoop: what it did so far, in order
  called,             \* misc.ts: the latest call, [fn, ...its arguments]
  outcome             \* misc.ts: how that call ended, [kind, value]

listVars == <<list, output, pc, calls>>
quoteVars == <<s, asArray, i, requireSlashQuote, requireBraceQuote, braceCount,
               result, todo, qpc, remembered>>
callVars == <<stack, call, status, returnValue, overlap>>
loopVars == <<constructed, cancelled, pendingFrames, clock, events>>
miscVars == <<called, outcome>>
restVars == <<loopVars, miscVars>>
vars == <<list, output, pc, calls, s, asArray, i, requireSlashQuote, requireBraceQuote,
          braceCount, result, todo, qpc, remembered, stack, call, status, returnValue,
          overlap, constructed, cancelled, pendingFrames, clock, events, called, outcome>>

---------------------------------------------------------------------------
(* Characters the code names, as UTF-16 code units.                        *)

Backspace == 8
Tab == 9
Newline == 10
VerticalTab == 11
FormFeed == 12
CarriageReturn == 13
Space == 32
DoubleQuote == 34
Backslash == 92
OpenBrace == 123
CloseBrace == 125
Delete == 127
FirstPrintable == 32

(* JavaScript's string iterator pairs a high surrogate with the low        *)
(* surrogate that follows it.                                              *)
HighSurrogateMin == 55296
HighSurrogateMax == 56319
LowSurrogateMin == 56320
LowSurrogateMax == 57343

IsHighSurrogate(unit) == unit >= HighSurrogateMin /\ unit <= HighSurrogateMax
IsLowSurrogate(unit) == unit >= LowSurrogateMin /\ unit <= LowSurrogateMax

(* Array.from(str), and the order for..of visits a string in: the          *)
(* sequence of the string's code points, each a string of 1 or 2 units.    *)
RECURSIVE ArrayFrom(_)
ArrayFrom(str) ==
  IF str = <<>> THEN <<>>
  ELSE IF Len(str) >= 2 /\ IsHighSurrogate(str[1]) /\ IsLowSurrogate(str[2])
       THEN <<SubSeq(str, 1, 2)>> \o ArrayFrom(SubSeq(str, 3, Len(str)))
       ELSE <<SubSeq(str, 1, 1)>> \o ArrayFrom(Tail(str))

(* char.charCodeAt(0) < 32 *)
isUnprintableAsciiButDelete(char) ==
  LET charCode == char[1]
  IN  charCode < FirstPrintable

(* char.charCodeAt(0) < 32 || charCode == 127 *)
isUnprintableAscii(char) ==
  LET charCode == char[1]
  IN  charCode < FirstPrintable \/ charCode = Delete

(* character.codePointAt(0) *)
codePointAt0(character) ==
  IF Len(character) >= 2 /\ IsHighSurrogate(character[1]) /\ IsLowSurrogate(character[2])
  THEN 65536 + (character[1] - HighSurrogateMin) * 1024 + (character[2] - LowSurrogateMin)
  ELSE character[1]

(* One digit of Number.prototype.toString(radix): 0-9, then a-z.           *)
DigitChar(d) == IF d < 10 THEN 48 + d ELSE 97 + (d - 10)

(* n.toString(radix) for an integer n >= 0.                                *)
RECURSIVE NatToString(_, _)
NatToString(n, radix) ==
  IF n < radix THEN <<DigitChar(n)>>
  ELSE NatToString(n \div radix, radix) \o <<DigitChar(n % radix)>>

(* toEncode.toString() for an integer number.                              *)
NumberToString(n) ==
  IF n < 0 THEN <<45>> \o NatToString(-n, 10) ELSE NatToString(n, 10)

(* The hexadecimal digits without the padStart of line 209.                *)
PadStartNone(str) == str

(* str.padStart(2, "0") *)
PadStart2(str) == IF Len(str) < 2 THEN <<48>> \o str ELSE str

---------------------------------------------------------------------------
(* tclQuote, lines 87-223.                                                 *)

(* The initial value of braceCount, line 93.  (StaleBraceCount is what a   *)
(* counter shared by the calls would start from.)                          *)
StaleBraceCount == braceCount
InitialBraceCount == 0

(* case "\\" of the scan, lines 112-122: a backslash that ends the string  *)
(* requires slash quoting; any other requires brace quoting and takes the  *)
(* next code point with it.                                                *)
(* (ScanBackslashAlwaysPaired is the case without the test of line 113.)   *)
ScanBackslashAlwaysPaired(inputLength, st) ==
  [st EXCEPT !.requireBraceQuote = TRUE, !.i = st.i + 1]

(* The case without the i++ of line 119.                                   *)
ScanBackslashUnpaired(inputLength, st) ==
  IF st.i + 1 = inputLength
  THEN [st EXCEPT !.requireSlashQuote = TRUE]
  ELSE [st EXCEPT !.requireBraceQuote = TRUE]

(* The case taken for that of a space: no test of line 113, no i++.        *)
ScanBackslashLikeSpace(inputLength, st) ==
  [st EXCEPT !.requireBraceQuote = TRUE]

ScanBackslash(inputLength, st) ==
  IF st.i + 1 = inputLength
  THEN [st EXCEPT !.requireSlashQuote = TRUE]
  ELSE [st EXCEPT !.requireBraceQuote = TRUE, !.i = st.i + 1]

(* The body of the loop with a character of several code units taken for   *)
(* one that needs braces (lines 98-102 left out).                          *)
ScanCharacterAstralQuoted(array, st) ==
  LET inputLength == Len(array)
      character == array[st.i + 1]
  IN  IF Len(character) > 1 THEN [st EXCEPT !.requireBraceQuote = TRUE]
      ELSE IF isUnprintableAscii(character)
           THEN [st EXCEPT !.requireSlashQuote = TRUE]
      ELSE IF character = <<Space>> \/ character = <<DoubleQuote>>
           THEN [st EXCEPT !.requireBraceQuote = TRUE]
      ELSE IF character = <<Backslash>>
           THEN ScanBackslash(inputLength, st)
      ELSE IF character = <<OpenBrace>>
           THEN [st EXCEPT !.requireBraceQuote = TRUE, !.braceCount = st.braceCount + 1]
      ELSE IF character = <<CloseBrace>>
           THEN IF st.braceCount # 0
                THEN [st EXCEPT !.requireBraceQuote = TRUE,
                                !.braceCount = st.braceCount - 1]
                ELSE [st EXCEPT !.requireBraceQuote = TRUE, !.requireSlashQuote = TRUE]
      ELSE st

(* The body of the loop without case " " (line 107).                       *)
ScanCharacterSpaceUnquoted(array, st) ==
  LET inputLength == Len(array)
      character == array[st.i + 1]
  IN  IF Len(character) > 1 THEN st
      ELSE IF isUnprintableAscii(character)
           THEN [st EXCEPT !.requireSlashQuote = TRUE]
      ELSE IF character = <<DoubleQuote>>
           THEN [st EXCEPT !.requireBraceQuote = TRUE]
      ELSE IF character = <<Backslash>>
           THEN ScanBackslash(inputLength, st)
      ELSE IF character = <<OpenBrace>>
           THEN [st EXCEPT !.requireBraceQuote = TRUE, !.braceCount = st.braceCount + 1]
      ELSE IF character = <<CloseBrace>>
           THEN IF st.braceCount # 0
                THEN [st EXCEPT !.requireBraceQuote = TRUE,
                                !.braceCount = st.braceCount - 1]
                ELSE [st EXCEPT !.requireBraceQuote = TRUE, !.requireSlashQuote = TRUE]
      ELSE st

(* The body of the loop without the test of line 130: a close brace        *)
(* always counts down.                                                     *)
ScanCharacterCloseUnchecked(array, st) ==
  LET inputLength == Len(array)
      character == array[st.i + 1]
  IN  IF Len(character) > 1 THEN st
      ELSE IF isUnprintableAscii(character)
           THEN [st EXCEPT !.requireSlashQuote = TRUE]
      ELSE IF character = <<Space>> \/ character = <<DoubleQuote>>
           THEN [st EXCEPT !.requireBraceQuote = TRUE]
      ELSE IF character = <<Backslash>>
           THEN ScanBackslash(inputLength, st)
      ELSE IF character = <<OpenBrace>>
           THEN [st EXCEPT !.requireBraceQuote = TRUE, !.braceCount = st.braceCount + 1]
      ELSE IF character = <<CloseBrace>>
           THEN [st EXCEPT !.requireBraceQuote = TRUE, !.braceCount = st.braceCount - 1]
      ELSE st

(* The body of the classification loop for one value of i (lines 97-138):  *)
(* the scan's locals after it, before the loop's own i++.                  *)
(* st = [i, requireSlashQuote, requireBraceQuote, braceCount].             *)
ScanCharacter(array, st) ==
  LET inputLength == Len(array)
      character == array[st.i + 1]
  IN  IF Len(character) > 1 THEN st
      ELSE IF isUnprintableAscii(character)
           THEN [st EXCEPT !.requireSlashQuote = TRUE]
      ELSE IF character = <<Space>> \/ character = <<DoubleQuote>>
           THEN [st EXCEPT !.requireBraceQuote = TRUE]
      ELSE IF character = <<Backslash>>
           THEN ScanBackslash(inputLength, st)
      ELSE IF character = <<OpenBrace>>
           THEN [st EXCEPT !.requireBraceQuote = TRUE, !.braceCount = st.braceCount + 1]
      ELSE IF character = <<CloseBrace>>
           THEN IF st.braceCount # 0
                THEN [st EXCEPT !.requireBraceQuote = TRUE,
                                !.braceCount = st.braceCount - 1]
                ELSE [st EXCEPT !.requireBraceQuote = TRUE, !.requireSlashQuote = TRUE]
      ELSE st

(* The loop with a break as soon as either flag is set.                    *)
RECURSIVE ScanBreaksOnAnyFlag(_, _)
ScanBreaksOnAnyFlag(array, st) ==
  IF ~(st.i < Len(array)) THEN st
  ELSE LET after == ScanCharacter(array, st)
       IN  IF after.requireSlashQuote \/ after.requireBraceQuote THEN after
           ELSE ScanBreaksOnAnyFlag(array, [after EXCEPT !.i = after.i + 1])

(* The for loop of lines 96-142 from the locals st on: the body, the       *)
(* break of line 139, the i++.                                             *)
RECURSIVE Scan(_, _)
Scan(array, st) ==
  IF ~(st.i < Len(array)) THEN st
  ELSE LET after == ScanCharacter(array, st)
       IN  IF after.requireSlashQuote THEN after
           ELSE Scan(array, [after EXCEPT !.i = after.i + 1])

(* The slash quoting pass with a control character without a name left    *)
(* as it is (lines 203-210 left out).                                      *)
SlashQuoteCharacterRawControl(character) ==
  IF character = <<Backspace>> THEN <<Backslash, 98>>
  ELSE IF character = <<FormFeed>> THEN <<Backslash, 102>>
  ELSE IF character = <<Newline>> THEN <<Backslash, 110>>
  ELSE IF character = <<CarriageReturn>> THEN <<Backslash, 114>>
  ELSE IF character = <<Tab>> THEN <<Backslash, 116>>
  ELSE IF character = <<VerticalTab>> THEN <<Backslash, 118>>
  ELSE IF character \in {<<Space>>, <<DoubleQuote>>, <<Backslash>>, <<OpenBrace>>,
                         <<CloseBrace>>}
       THEN <<Backslash>> \o character
  ELSE character

(* The characters the slash quoting pass puts a backslash before,          *)
(* lines 193-201.  (SlashPrefixedButSpace is the set without case " ".)    *)
SlashPrefixedButSpace ==
  {<<DoubleQuote>>, <<Backslash>>, <<OpenBrace>>, <<CloseBrace>>}

(* The set without the braces, and the set without case "\\".              *)
SlashPrefixedButBraces ==
  {<<Space>>, <<DoubleQuote>>, <<Backslash>>}

SlashPrefixedButBackslash ==
  {<<Space>>, <<DoubleQuote>>, <<OpenBrace>>, <<CloseBrace>>}

SlashPrefixed ==
  {<<Space>>, <<DoubleQuote>>, <<Backslash>>, <<OpenBrace>>, <<CloseBrace>>}

(* What the slash quoting pass appends for one code point, lines 153-215.  *)
SlashQuoteCharacter(character) ==
  IF character = <<Backspace>> THEN <<Backslash, 98>>
  ELSE IF character = <<FormFeed>> THEN <<Backslash, 102>>
  ELSE IF character = <<Newline>> THEN <<Backslash, 110>>
  ELSE IF character = <<CarriageReturn>> THEN <<Backslash, 114>>
  ELSE IF character = <<Tab>> THEN <<Backslash, 116>>
  ELSE IF character = <<VerticalTab>> THEN <<Backslash, 118>>
  ELSE IF character \in SlashPrefixed
       THEN <<Backslash>> \o character
  ELSE IF isUnprintableAscii(character)
       THEN <<Backslash, 120>> \o PadStart2(NatToString(codePointAt0(character), 16))
  ELSE character

(* The slash quoting pass over the code points chars, lines 151-217.       *)
RECURSIVE SlashQuote(_)
SlashQuote(chars) ==
  IF chars = <<>> THEN <<>>
  ELSE SlashQuoteCharacter(Head(chars)) \o SlashQuote(Tail(chars))

(* QuoteDecision without the branch of lines 218-219.                      *)
QuoteDecisionNoBraces(str, st) ==
  IF st.requireSlashQuote \/ st.braceCount # 0 THEN SlashQuote(ArrayFrom(str))
  ELSE str

(* QuoteDecision without the branch of lines 220-221.                      *)
QuoteDecisionAlwaysQuoted(str, st) ==
  IF st.requireSlashQuote \/ st.braceCount # 0 THEN SlashQuote(ArrayFrom(str))
  ELSE <<OpenBrace>> \o str \o <<CloseBrace>>

(* QuoteDecision without the check of lines 143-146.                       *)
QuoteDecisionBracesUnchecked(str, st) ==
  IF st.requireSlashQuote THEN SlashQuote(ArrayFrom(str))
  ELSE IF st.requireBraceQuote THEN <<OpenBrace>> \o str \o <<CloseBrace>>
  ELSE str

(* The return value once the scan has ended with the locals st,            *)
(* lines 143-222.                                                          *)
QuoteDecision(str, st) ==
  IF st.requireSlashQuote \/ st.braceCount # 0 THEN SlashQuote(ArrayFrom(str))
  ELSE IF st.requireBraceQuote THEN <<OpenBrace>> \o str \o <<CloseBrace>>
  ELSE str

(* tclQuote without the test of lines 88-90.                               *)
tclQuoteNoEmptyCase(str) ==
  QuoteDecision(str,
    Scan(ArrayFrom(str),
         [i |-> 0, requireSlashQuote |-> FALSE, requireBraceQuote |-> FALSE,
          braceCount |-> InitialBraceCount]))

tclQuote(str) ==
  IF str = <<>> THEN <<OpenBrace, CloseBrace>>
  ELSE QuoteDecision(str,
         Scan(ArrayFrom(str),
              [i |-> 0, requireSlashQuote |-> FALSE, requireBraceQuote |-> FALSE,
               braceCount |-> InitialBraceCount]))

---------------------------------------------------------------------------
(* tclList and encodeTclListElement, lines 8-52.                           *)

Text(str) == [type |-> "string", val |-> str]
Number(n) == [type |-> "number", val |-> n]
Boolean(b) == [type |-> "boolean", val |-> b]
Iterable(items) == [type |-> "list", val |-> items]

RECURSIVE tclList(_)
RECURSIVE encodeTclListElement(_)

(* encodeTclListElement with a nested list's encoding left as it is,       *)
(* with braces put around it whatever it holds, and with a boolean's       *)
(* default string conversion.                                              *)
encodeTclListElementBare(toEncode) ==
  IF toEncode.type = "string" THEN tclQuote(toEncode.val)
  ELSE IF toEncode.type = "number" THEN NumberToString(toEncode.val)
  ELSE IF toEncode = Boolean(TRUE) THEN <<49>>
  ELSE IF toEncode = Boolean(FALSE) THEN <<48>>
  ELSE tclList(toEncode.val)

encodeTclListElementBraced(toEncode) ==
  IF toEncode.type = "string" THEN tclQuote(toEncode.val)
  ELSE IF toEncode.type = "number" THEN NumberToString(toEncode.val)
  ELSE IF toEncode = Boolean(TRUE) THEN <<49>>
  ELSE IF toEncode = Boolean(FALSE) THEN <<48>>
  ELSE <<OpenBrace>> \o tclList(toEncode.val) \o <<CloseBrace>>

encodeTclListElementBooleanText(toEncode) ==
  IF toEncode.type = "string" THEN tclQuote(toEncode.val)
  ELSE IF toEncode.type = "number" THEN NumberToString(toEncode.val)
  ELSE IF toEncode = Boolean(TRUE) THEN <<116, 114, 117, 101>>
  ELSE IF toEncode = Boolean(FALSE) THEN <<102, 97, 108, 115, 101>>
  ELSE tclQuote(tclList(toEncode.val))

(* encodeTclListElement with a text returned as it is.                     *)
encodeTclListElementTextAsIs(toEncode) ==
  IF toEncode.type = "string" THEN toEncode.val
  ELSE IF toEncode.type = "number" THEN NumberToString(toEncode.val)
  ELSE IF toEncode = Boolean(TRUE) THEN <<49>>
  ELSE IF toEncode = Boolean(FALSE) THEN <<48>>
  ELSE tclQuote(tclList(toEncode.val))

(* lines 8-20 *)
encodeTclListElement(toEncode) ==
  IF toEncode.type = "string" THEN tclQuote(toEncode.val)
  ELSE IF toEncode.type = "number" THEN NumberToString(toEncode.val)
  ELSE IF toEncode = Boolean(TRUE) THEN <<49>>
  ELSE IF toEncode = Boolean(FALSE) THEN <<48>>
  ELSE tclQuote(tclList(toEncode.val))

RECURSIVE tclListFrom(_, _)

(* The loop with the separator before every element, and with a separator *)
(* of two spaces.                                                          *)
tclListFromLeadingSeparator(acc, items) ==
  IF items = <<>> THEN acc
  ELSE tclListFrom(acc \o <<Space>> \o encodeTclListElement(Head(items)), Tail(items))

tclListFromWideSeparator(acc, items) ==
  IF items = <<>> THEN acc
  ELSE tclListFrom((IF acc # <<>> THEN acc \o <<Space, Space>> ELSE acc)
                     \o encodeTclListElement(Head(items)),
                   Tail(items))

(* The loop of lines 45-50 over the items still to visit, from the         *)
(* accumulated result acc on.                                              *)
tclListFrom(acc, items) ==
  IF items = <<>> THEN acc
  ELSE tclListFrom((IF acc # <<>> THEN acc \o <<Space>> ELSE acc)
                     \o encodeTclListElement(Head(items)),
                   Tail(items))

tclList(items) == tclListFrom(<<>>, items)

---------------------------------------------------------------------------
(* The decoder the round-trip laws are stated against: the list syntax of  *)
(* Tcl 8.6 (the unquoting rules the comment of tclList points to), as      *)
(* Tcl_SplitList reads it.  decode(str) is [ok, elements]: ok is FALSE     *)
(* when str is not a well-formed list.                                     *)

IsListSpace(unit) ==
  unit \in {Space, Tab, Newline, VerticalTab, FormFeed, CarriageReturn}

IsHexDigit(unit) ==
  (unit >= 48 /\ unit <= 57) \/ (unit >= 65 /\ unit <= 70) \/ (unit >= 97 /\ unit <= 102)

HexValue(unit) ==
  IF unit <= 57 THEN unit - 48 ELSE IF unit <= 70 THEN unit - 55 ELSE unit - 87

IsOctalDigit(unit) == unit >= 48 /\ unit <= 55

MaxCodePoint == 1114111

(* The UTF-16 form of a code point.                                        *)
FromCodePoint(cp) ==
  IF cp < 65536 THEN <<cp>>
  ELSE <<HighSurrogateMin + ((cp - 65536) \div 1024),
         LowSurrogateMin + ((cp - 65536) % 1024)>>

(* Up to max hex digits of str from position p on: [count, value].         *)
(* A digit that would take the value above the last code point is left.    *)
RECURSIVE ParseHex(_, _, _, _, _)
ParseHex(str, p, max, count, value) ==
  IF count < max /\ p <= Len(str) /\ IsHexDigit(str[p])
     /\ value * 16 + HexValue(str[p]) <= MaxCodePoint
  THEN ParseHex(str, p + 1, max, count + 1, value * 16 + HexValue(str[p]))
  ELSE [count |-> count, value |-> value]

(* Up to 3 octal digits from position p on, the third only while the       *)
(* value fits 8 bits.                                                      *)
RECURSIVE ParseOctal(_, _, _, _)
ParseOctal(str, p, count, value) ==
  IF count < 3 /\ p <= Len(str) /\ IsOctalDigit(str[p]) /\ (count < 2 \/ value <= 31)
  THEN ParseOctal(str, p + 1, count + 1, value * 8 + (str[p] - 48))
  ELSE [count |-> count, value |-> value]

(* The spaces and tabs from position p on.                                 *)
RECURSIVE BlankRun(_, _)
BlankRun(str, p) ==
  IF p <= Len(str) /\ str[p] \in {Space, Tab} THEN 1 + BlankRun(str, p + 1) ELSE 0

(* The backslash sequence that starts at str[p] = Backslash: the number of *)
(* code units it takes and the text it stands for.                         *)
TclParseBackslash(str, p) ==
  IF p = Len(str) THEN [count |-> 1, value |-> <<Backslash>>]
  ELSE
    LET c == str[p + 1]
        hex(max) == ParseHex(str, p + 2, max, 0, 0)
        hexSequence(max) ==
          IF hex(max).count = 0 THEN [count |-> 2, value |-> <<c>>]
          ELSE [count |-> 2 + hex(max).count, value |-> FromCodePoint(hex(max).value)]
        octal == ParseOctal(str, p + 1, 0, 0)
        next == Head(ArrayFrom(SubSeq(str, p + 1, Len(str))))
    IN  IF c = 97 THEN [count |-> 2, value |-> <<7>>]
        ELSE IF c = 98 THEN [count |-> 2, value |-> <<Backspace>>]
        ELSE IF c = 102 THEN [count |-> 2, value |-> <<FormFeed>>]
        ELSE IF c = 110 THEN [count |-> 2, value |-> <<Newline>>]
        ELSE IF c = 114 THEN [count |-> 2, value |-> <<CarriageReturn>>]
        ELSE IF c = 116 THEN [count |-> 2, value |-> <<Tab>>]
        ELSE IF c = 118 THEN [count |-> 2, value |-> <<VerticalTab>>]
        ELSE IF c = 120 THEN hexSequence(2)
        ELSE IF c = 117 THEN hexSequence(4)
        ELSE IF c = 85 THEN hexSequence(8)
        ELSE IF c = Newline
             THEN [count |-> 2 + BlankRun(str, p + 2), value |-> <<Space>>]
        ELSE IF IsOctalDigit(c)
             THEN [count |-> 1 + octal.count, value |-> <<octal.value>>]
        ELSE [count |-> 1 + Len(next), value |-> next]

(* The first position from p on that holds no list white space.            *)
RECURSIVE SkipListSpace(_, _)
SkipListSpace(str, p) ==
  IF p <= Len(str) /\ IsListSpace(str[p]) THEN SkipListSpace(str, p + 1) ELSE p

(* The scan of one element from position p on, with openBraces braces      *)
(* open and inQuotes set inside double quotes: [ok, end, next], the        *)
(* element's text ending before position end and the scan going on at      *)
(* next.                                                                   *)
RECURSIVE FindElementEnd(_, _, _, _)
FindElementEnd(str, p, openBraces, inQuotes) ==
  IF p > Len(str)
  THEN [ok |-> openBraces = 0 /\ ~inQuotes, end |-> p, next |-> p]
  ELSE
    LET c == str[p]
        closes == p + 1 > Len(str) \/ IsListSpace(str[p + 1])
    IN  IF c = OpenBrace
        THEN FindElementEnd(str, p + 1,
                            IF openBraces # 0 THEN openBraces + 1 ELSE 0, inQuotes)
        ELSE IF c = CloseBrace /\ openBraces > 1
        THEN FindElementEnd(str, p + 1, openBraces - 1, inQuotes)
        ELSE IF c = CloseBrace /\ openBraces = 1
        THEN [ok |-> closes, end |-> p, next |-> p + 1]
        ELSE IF c = Backslash
        THEN FindElementEnd(str, p + TclParseBackslash(str, p).count,
                            openBraces, inQuotes)
        ELSE IF IsListSpace(c) /\ openBraces = 0 /\ ~inQuotes
        THEN [ok |-> TRUE, end |-> p, next |-> p]
        ELSE IF c = DoubleQuote /\ inQuotes
        THEN [ok |-> closes, end |-> p, next |-> p + 1]
        ELSE FindElementEnd(str, p + 1, openBraces, inQuotes)

(* The text of an element that was not in braces: its backslash sequences  *)
(* replaced by what they stand for.                                        *)
RECURSIVE CollapseFrom(_, _)
CollapseFrom(str, p) ==
  IF p > Len(str) THEN <<>>
  ELSE IF str[p] = Backslash
       THEN TclParseBackslash(str, p).value
              \o CollapseFrom(str, p + TclParseBackslash(str, p).count)
       ELSE <<str[p]>> \o CollapseFrom(str, p + 1)

(* The elements of str from position p on, after the elements acc.         *)
RECURSIVE decodeFrom(_, _, _)
decodeFrom(str, p, acc) ==
  LET start == SkipListSpace(str, p)
      inBraces == str[start] = OpenBrace
      inQuotes == str[start] = DoubleQuote
      elemStart == IF inBraces \/ inQuotes THEN start + 1 ELSE start
      found == FindElementEnd(str, elemStart, IF inBraces THEN 1 ELSE 0, inQuotes)
      text == SubSeq(str, elemStart, found.end - 1)
      element == IF inBraces THEN text ELSE CollapseFrom(text, 1)
  IN  IF start > Len(str) THEN [ok |-> TRUE, elements |-> acc]
      ELSE IF ~found.ok THEN [ok |-> FALSE, elements |-> <<>>]
      ELSE decodeFrom(str, found.next, Append(acc, element))

decode(str) == decodeFrom(str, 1, <<>>)

(* The decoder's answer for a well-formed list of the elements es.         *)
Decoded(es) == [ok |-> TRUE, elements |-> es]

---------------------------------------------------------------------------
(* The arguments the calls are made with.                                  *)

MaxLen == 3
MaxNodes == 3
MaxCalls == 2

(* The code units texts are made of: a letter (also a hex digit), the      *)
(* characters the scan names, a control character with a name (\n), one    *)
(* without (\x01), DEL, and the two halves of U+1F600.                     *)
Alphabet ==
  {97, Space, DoubleQuote, Backslash, OpenBrace, CloseBrace, Newline, 1, Delete,
   55357, 56832}

(* The strings of at most n code units.                                    *)
Strings(n) == UNION {[1..k -> Alphabet] : k \in 0..n}

(* The items the lists are made of, besides nested lists.                  *)
Leaves ==
  {Text(str) : str \in {<<>>, <<97>>, <<Space>>, <<Backslash>>, <<OpenBrace>>}}
    \cup {Number(n) : n \in {0, -12, 305}}
    \cup {Boolean(b) : b \in BOOLEAN}

(* The lists of at most n items in all, nested lists and their items       *)
(* counted.                                                                *)
RECURSIVE ListsUpTo(_)
ListsUpTo(n) ==
  IF n = 0 THEN {<<>>}
  ELSE ListsUpTo(n - 1)
         \cup {<<v>> \o rest : v \in Leaves, rest \in ListsUpTo(n - 1)}
         \cup UNION {{<<Iterable(inner)>> \o rest :
                        inner \in ListsUpTo(k), rest \in ListsUpTo(n - 1 - k)} :
                     k \in 0..(n - 1)}

(* The source of the unit test "recursion", line 328.                      *)
RecursionSource ==
  <<Iterable(<<>>),
    Iterable(<<Number(1), Number(2), Text(<<116, 104, 114, 101, 101>>),
               Iterable(<<Boolean(TRUE), Boolean(FALSE)>>)>>)>>

(* The code points of the string of the unit test "all ASCII chars",       *)
(* line 251, and the strings that hold one of them after the first,        *)
(* "\x00".                                                                 *)
AsciiCodes == 0..127

AsciiPairs == {<<0, c>> : c \in AsciiCodes}

(* The expectedResult of that unit test, line 254.                         *)
ReferenceTable ==
  <<92, 120, 48, 48, 92, 120, 48, 49, 92, 120, 48, 50, 92, 120, 48, 51,
    92, 120, 48, 52, 92, 120, 48, 53, 92, 120, 48, 54, 92, 120, 48, 55,
    92, 98, 92, 116, 92, 110, 92, 118, 92, 102, 92, 114, 92, 120, 48, 101,
    92, 120, 48, 102, 92, 120, 49, 48, 92, 120, 49, 49, 92, 120, 49, 50,
    92, 120, 49, 51, 92, 120, 49, 52, 92, 120, 49, 53, 92, 120, 49, 54,
    92, 120, 49, 55, 92, 120, 49, 56, 92, 120, 49, 57, 92, 120, 49, 97,
    92, 120, 49, 98, 92, 120, 49, 99, 92, 120, 49, 100, 92, 120, 49, 101,
    92, 120, 49, 102, 92, 32, 33, 92, 34, 35, 36, 37, 38, 39, 40, 41,
    42, 43, 44, 45, 46, 47, 48, 49, 50, 51, 52, 53, 54, 55, 56, 57,
    58, 59, 60, 61, 62, 63, 64, 65, 66, 67, 68, 69, 70, 71, 72, 73,
    74, 75, 76, 77, 78, 79, 80, 81, 82, 83, 84, 85, 86, 87, 88, 89,
    90, 91, 92, 92, 93, 94, 95, 96, 97, 98, 99, 100, 101, 102, 103, 104,
    105, 106, 107, 108, 109, 110, 111, 112, 113, 114, 115, 116, 117, 118, 119, 120,
    121, 122, 92, 123, 124, 92, 125, 126, 92, 120, 55, 102>>

(* The source of the unit test "UTF-8 and backslash", line 313:            *)
(* "Don\u2019t stop here {".                                               *)
Utf8AndBackslash ==
  <<68, 111, 110, 8217, 116, Space, 115, 116, 111, 112, Space,
    104, 101, 114, 101, Space, OpenBrace>>

(* Sources of the unit test that are longer than MaxLen: "a b c",          *)
(* "a bc\", "{{{}}", "{{}}}", "{}}{{}", 'a"b{c', the fancy list            *)
(* "{a b} \\ \} \{ {c d}" and "UTF-8 and backslash" (lines 263-316).        *)
UnitTestTexts ==
  {<<97, Space, 98, Space, 99>>,
   <<97, Space, 98, 99, Backslash>>,
   <<OpenBrace, OpenBrace, OpenBrace, CloseBrace, CloseBrace>>,
   <<OpenBrace, OpenBrace, CloseBrace, CloseBrace, CloseBrace>>,
   <<OpenBrace, CloseBrace, CloseBrace, OpenBrace, OpenBrace, CloseBrace>>,
   <<97, DoubleQuote, 98, OpenBrace, 99>>,
   <<OpenBrace, 97, Space, 98, CloseBrace, Space, Backslash, Backslash, Space,
     Backslash, CloseBrace, Space, Backslash, OpenBrace, Space,
     OpenBrace, 99, Space, 100, CloseBrace>>,
   Utf8AndBackslash}

Sources ==
  {<<Text(str)>> : str \in Strings(MaxLen) \cup UnitTestTexts \cup AsciiPairs}
    \cup ListsUpTo(MaxNodes) \cup {RecursionSource}

---------------------------------------------------------------------------
(* The caller of tclList: it calls tclList(list), and may then hand the    *)
(* returned string back as a list item, or the list itself as a nested     *)
(* list.                                                                   *)

QuoteIdle ==
  /\ s = <<>>
  /\ asArray = <<>>
  /\ i = 0
  /\ requireSlashQuote = FALSE
  /\ requireBraceQuote = FALSE
  /\ braceCount = 0
  /\ result = <<>>
  /\ todo = <<>>
  /\ qpc = "idle"
  /\ remembered = <<>>

(* No thread has made a call.                                              *)
Threads == {1, 2}

NoCall == [fn |-> "none", arg |-> <<>>]

ThreadsIdle ==
  /\ stack = [c \in Threads |-> <<>>]
  /\ call = [c \in Threads |-> NoCall]
  /\ status = [c \in Threads |-> "idle"]
  /\ returnValue = [c \in Threads |-> <<>>]
  /\ overlap = [c \in Threads |-> FALSE]

(* No AnimationLoop has been constructed.                                  *)
LoopIdle ==
  /\ constructed = FALSE
  /\ cancelled = FALSE
  /\ pendingFrames = 0
  /\ clock = 0
  /\ events = <<>>

(* No function of misc.ts has been called.                                 *)
NotCalled == [fn |-> "none"]

MiscIdle ==
  /\ called = NotCalled
  /\ outcome = [kind |-> "none"]

RestIdle == LoopIdle /\ MiscIdle

Init ==
  /\ list \in Sources
  /\ output = <<>>
  /\ pc = "ready"
  /\ calls = 0
  /\ QuoteIdle
  /\ ThreadsIdle
  /\ RestIdle

(* output = tclList(list) *)
CallTclList ==
  /\ pc = "ready"
  /\ output' = tclList(list)
  /\ pc' = "returned"
  /\ calls' = calls + 1
  /\ UNCHANGED <<restVars, list, quoteVars, callVars>>

(* The output of a previous call to tclList() as a list item (line 28).    *)
Resubmit ==
  /\ pc = "returned"
  /\ calls < MaxCalls
  /\ list' = <<Text(output)>>
  /\ pc' = "ready"
  /\ UNCHANGED <<restVars, output, calls, quoteVars, callVars>>

(* tclList([source]) for a source that is a list (line 337).               *)
Nest ==
  /\ pc = "returned"
  /\ calls < MaxCalls
  /\ list' = <<Iterable(list)>>
  /\ pc' = "ready"
  /\ UNCHANGED <<restVars, output, calls, quoteVars, callVars>>

Next == CallTclList \/ Resubmit \/ Nest

Spec == Init /\ [][Next]_vars

(* The same caller with texts only: tclList([str]) is tclQuote(str), and   *)
(* the output may be quoted again.                                         *)
InitText ==
  /\ list \in {<<Text(str)>> : str \in Strings(MaxLen) \cup UnitTestTexts}
  /\ output = <<>>
  /\ pc = "ready"
  /\ calls = 0
  /\ QuoteIdle
  /\ ThreadsIdle
  /\ RestIdle

NextText == CallTclList \/ Resubmit

SpecText == InitText /\ [][NextText]_vars

(* The same caller with lists of values, flat and nested.                  *)
InitNested ==
  /\ list \in ListsUpTo(MaxNodes) \cup {RecursionSource}
  /\ output = <<>>
  /\ pc = "ready"
  /\ calls = 0
  /\ QuoteIdle
  /\ ThreadsIdle
  /\ RestIdle

NextNested == CallTclList \/ Resubmit \/ Nest

SpecNested == InitNested /\ [][NextNested]_vars

---------------------------------------------------------------------------
(* tclQuote step by step: one action per iteration of its loops, its       *)
(* locals in the variables.  The caller makes one call after the other     *)
(* and may keep a call's argument and result.                              *)

MaxScanLen == 2

(* The code points the stepped calls' arguments are made of.               *)
ScanCodePoints ==
  {<<97>>, <<Space>>, <<Backslash>>, <<OpenBrace>>, <<CloseBrace>>, <<1>>}

(* The strings of at most n of these code points.                          *)
RECURSIVE ScanStrings(_)
ScanStrings(n) ==
  IF n = 0 THEN {<<>>}
  ELSE ScanStrings(n - 1)
         \cup {c \o rest : c \in ScanCodePoints, rest \in ScanStrings(n - 1)}

ListIdle ==
  /\ list = <<>>
  /\ output = <<>>
  /\ pc = "ready"
  /\ calls = 0

InitQuote == ListIdle /\ QuoteIdle /\ ThreadsIdle /\ RestIdle

(* The locals of the scan as ScanCharacter takes them.                     *)
Locals ==
  [i |-> i, requireSlashQuote |-> requireSlashQuote,
   requireBraceQuote |-> requireBraceQuote, braceCount |-> braceCount]

(* tclQuote(str) is called: lines 88-95.  The call has locals of its own: *)
(* those it has not declared yet hold their empty values.                  *)
Enter(str) ==
  /\ qpc \in {"idle", "returned"}
  /\ s' = str
  /\ todo' = <<>>
  /\ i' = 0
  /\ requireSlashQuote' = FALSE
  /\ requireBraceQuote' = FALSE
  /\ IF str = <<>>
     THEN /\ result' = <<OpenBrace, CloseBrace>>
          /\ qpc' = "returned"
          /\ braceCount' = 0
          /\ asArray' = <<>>
     ELSE /\ braceCount' = InitialBraceCount
          /\ asArray' = ArrayFrom(str)
          /\ result' = <<>>
          /\ qpc' = "scan"
  /\ UNCHANGED <<restVars, listVars, callVars, remembered>>

(* One iteration of the classification loop: lines 96-142.                 *)
ScanStep ==
  /\ qpc = "scan"
  /\ i < Len(asArray)
  /\ LET after == ScanCharacter(asArray, Locals)
     IN  /\ requireSlashQuote' = after.requireSlashQuote
         /\ requireBraceQuote' = after.requireBraceQuote
         /\ braceCount' = after.braceCount
         /\ IF after.requireSlashQuote
            THEN i' = after.i /\ qpc' = "afterScan"
            ELSE i' = after.i + 1 /\ qpc' = "scan"
  /\ UNCHANGED <<restVars, listVars, callVars, s, asArray, result, todo, remembered>>

(* The loop ends with i at inputLength: line 96.                           *)
ScanEnd ==
  /\ qpc = "scan"
  /\ ~(i < Len(asArray))
  /\ qpc' = "afterScan"
  /\ UNCHANGED <<restVars, listVars, callVars, s, asArray, i, requireSlashQuote, requireBraceQuote,
                 braceCount, result, todo, remembered>>

(* The check of the braces and the choice of the quoting: lines 143-151    *)
(* and 218-222.                                                            *)
Decide ==
  /\ qpc = "afterScan"
  /\ requireSlashQuote' = (requireSlashQuote \/ braceCount # 0)
  /\ IF requireSlashQuote'
     THEN result' = <<>> /\ todo' = ArrayFrom(s) /\ qpc' = "slash"
     ELSE /\ result' = IF requireBraceQuote THEN <<OpenBrace>> \o s \o <<CloseBrace>>
                       ELSE s
          /\ todo' = todo
          /\ qpc' = "returned"
  /\ UNCHANGED <<restVars, listVars, callVars, s, asArray, i, requireBraceQuote, braceCount, remembered>>

(* One iteration of the slash quoting loop: lines 152-216.                 *)
SlashStep ==
  /\ qpc = "slash"
  /\ todo # <<>>
  /\ result' = result \o SlashQuoteCharacter(Head(todo))
  /\ todo' = Tail(todo)
  /\ UNCHANGED <<restVars, listVars, callVars, s, asArray, i, requireSlashQuote, requireBraceQuote,
                 braceCount, qpc, remembered>>

(* return result: line 217.                                                *)
SlashReturn ==
  /\ qpc = "slash"
  /\ todo = <<>>
  /\ qpc' = "returned"
  /\ UNCHANGED <<restVars, listVars, callVars, s, asArray, i, requireSlashQuote, requireBraceQuote,
                 braceCount, result, todo, remembered>>

(* The caller keeps the argument and the result of the call that has just  *)
(* returned, and goes on.                                                  *)
Remember ==
  /\ qpc = "returned"
  /\ remembered' = <<s, result>>
  /\ qpc' = "idle"
  /\ UNCHANGED <<restVars, listVars, callVars, s, asArray, i, requireSlashQuote, requireBraceQuote,
                 braceCount, result, todo>>

NextQuote ==
  \/ \E str \in ScanStrings(MaxScanLen) : Enter(str)
  \/ ScanStep
  \/ ScanEnd
  \/ Decide
  \/ SlashStep
  \/ SlashReturn
  \/ Remember

SpecQuote == InitQuote /\ [][NextQuote]_vars

---------------------------------------------------------------------------
(* Two threads that call tclQuote and tclList with no synchronization,     *)
(* one step of one thread at a time.  A call's locals are in its frame;    *)
(* a thread's frames are on its stack, the running call's frame on top.    *)

MaxFrameLen == 1

(* The code points the threads' strings are made of: a letter, the         *)
(* characters the scan names, a lone low surrogate.                        *)
FrameCodePoints ==
  {<<97>>, <<Space>>, <<Backslash>>, <<OpenBrace>>, <<CloseBrace>>, <<56832>>}

RECURSIVE FrameStrings(_)
FrameStrings(n) ==
  IF n = 0 THEN {<<>>}
  ELSE FrameStrings(n - 1)
         \cup {c \o rest : c \in FrameCodePoints, rest \in FrameStrings(n - 1)}

(* Longer strings: "{}", a control character before a letter, a letter     *)
(* before a backslash.                                                     *)
FrameTexts == {<<OpenBrace, CloseBrace>>, <<1, 97>>, <<97, Backslash>>}

(* Lists: empty, flat, and nested as in the unit test "recursion".         *)
FrameLists ==
  {<<>>,
   <<Text(<<Space>>), Number(305)>>,
   <<Iterable(<<Text(<<OpenBrace>>), Boolean(TRUE)>>)>>,
   <<Iterable(<<>>), Text(<<56832>>)>>}

ThreadCalls ==
  {[fn |-> "tclQuote", arg |-> str] : str \in FrameStrings(MaxFrameLen) \cup FrameTexts}
    \cup {[fn |-> "tclList", arg |-> items] : items \in FrameLists}

(* Where a thread's frames are: on its own stack.  (SharedHome is one      *)
(* place for the frames of all threads.)                                   *)
SharedHome(c) == 1
Home(c) == c

(* The i++ of line 96.  (SameIndex is the loop without it.)                *)
SameIndex(index) == index
NextIndex(index) == index + 1

(* The frame of a call of tclQuote(str) once lines 88-95 have run: about   *)
(* to return "{}", or about to scan.                                       *)
QuoteFrame(str) ==
  IF str = <<>>
  THEN [fn |-> "tclQuote", s |-> str, asArray |-> <<>>, i |-> 0,
        requireSlashQuote |-> FALSE, requireBraceQuote |-> FALSE, braceCount |-> 0,
        result |-> <<OpenBrace, CloseBrace>>, todo |-> <<>>, at |-> "return"]
  ELSE [fn |-> "tclQuote", s |-> str, asArray |-> ArrayFrom(str), i |-> 0,
        requireSlashQuote |-> FALSE, requireBraceQuote |-> FALSE,
        braceCount |-> InitialBraceCount,
        result |-> <<>>, todo |-> <<>>, at |-> "scan"]

(* The frame of a call of tclList(items) once line 44 has run.             *)
ListFrame(items) ==
  [fn |-> "tclList", items |-> items, result |-> <<>>, at |-> "loop"]

Frames(c) == stack[Home(c)]
TopFrame(c) == Frames(c)[Len(Frames(c))]
Push(frames, frame) == Append(frames, frame)
Pop(frames) == SubSeq(frames, 1, Len(frames) - 1)
ReplaceTop(frames, frame) == [frames EXCEPT ![Len(frames)] = frame]

IsRunning(c) == status[c] = "running" /\ Frames(c) # <<>>

(* What a step of thread c leaves of the other thread's business, and      *)
(* what it notes of its own.                                               *)
StepOf(c, frames) ==
  /\ stack' = [stack EXCEPT ![Home(c)] = frames]
  /\ overlap' = [overlap EXCEPT ![c] = @ \/ status[3 - c] = "running"]
  /\ UNCHANGED <<restVars, listVars, quoteVars, call, status, returnValue>>

(* A thread calls tclQuote or tclList.                                     *)
Call(c, toCall) ==
  /\ status[c] # "running"
  /\ status' = [status EXCEPT ![c] = "running"]
  /\ call' = [call EXCEPT ![c] = toCall]
  /\ returnValue' = [returnValue EXCEPT ![c] = <<>>]
  /\ overlap' = [overlap EXCEPT ![c] = FALSE]
  /\ stack' = [stack EXCEPT ![Home(c)] =
                 Push(@, IF toCall.fn = "tclQuote" THEN QuoteFrame(toCall.arg)
                         ELSE ListFrame(toCall.arg))]
  /\ UNCHANGED <<restVars, listVars, quoteVars>>

(* One iteration of tclQuote's classification loop: lines 96-142.          *)
ScanIteration(c) ==
  /\ IsRunning(c)
  /\ TopFrame(c).fn = "tclQuote"
  /\ TopFrame(c).at = "scan"
  /\ TopFrame(c).i < Len(TopFrame(c).asArray)
  /\ LET after == ScanCharacter(TopFrame(c).asArray, TopFrame(c))
     IN  StepOf(c, ReplaceTop(Frames(c),
                   IF after.requireSlashQuote THEN [after EXCEPT !.at = "afterScan"]
                   ELSE [after EXCEPT !.i = NextIndex(after.i)]))

(* The loop ends with i at inputLength: line 96.                           *)
ScanExit(c) ==
  /\ IsRunning(c)
  /\ TopFrame(c).fn = "tclQuote"
  /\ TopFrame(c).at = "scan"
  /\ ~(TopFrame(c).i < Len(TopFrame(c).asArray))
  /\ StepOf(c, ReplaceTop(Frames(c), [TopFrame(c) EXCEPT !.at = "afterScan"]))

(* The check of the braces and the choice of the quoting: lines 143-151    *)
(* and 218-222.                                                            *)
ChooseQuoting(c) ==
  /\ IsRunning(c)
  /\ TopFrame(c).fn = "tclQuote"
  /\ TopFrame(c).at = "afterScan"
  /\ LET top == TopFrame(c)
     IN  StepOf(c, ReplaceTop(Frames(c),
                   IF top.requireSlashQuote \/ top.braceCount # 0
                   THEN [top EXCEPT !.requireSlashQuote = TRUE, !.result = <<>>,
                                    !.todo = ArrayFrom(top.s), !.at = "slash"]
                   ELSE [top EXCEPT !.result = IF top.requireBraceQuote
                                               THEN <<OpenBrace>> \o top.s \o <<CloseBrace>>
                                               ELSE top.s,
                                    !.at = "return"]))

(* One iteration of the slash quoting loop: lines 152-216.                 *)
SlashIteration(c) ==
  /\ IsRunning(c)
  /\ TopFrame(c).fn = "tclQuote"
  /\ TopFrame(c).at = "slash"
  /\ TopFrame(c).todo # <<>>
  /\ StepOf(c, ReplaceTop(Frames(c),
                [TopFrame(c) EXCEPT !.result = @ \o SlashQuoteCharacter(Head(TopFrame(c).todo)),
                                    !.todo = Tail(@)]))

(* One iteration of tclList's loop up to the call encodeTclListElement     *)
(* makes, lines 45-49 and 8-18: the separator, then the number's or the    *)
(* boolean's text, or the call of tclQuote for a string, or the call of    *)
(* tclList for a nested list.                                              *)
ListIteration(c) ==
  /\ IsRunning(c)
  /\ TopFrame(c).fn = "tclList"
  /\ TopFrame(c).at = "loop"
  /\ TopFrame(c).items # <<>>
  /\ LET top == TopFrame(c)
         item == Head(top.items)
         separated == IF top.result # <<>> THEN top.result \o <<Space>> ELSE top.result
     IN  StepOf(c,
           IF item.type = "string"
           THEN Push(ReplaceTop(Frames(c), [top EXCEPT !.result = separated, !.at = "quoted"]),
                     QuoteFrame(item.val))
           ELSE IF item.type = "number"
           THEN ReplaceTop(Frames(c), [top EXCEPT !.result = separated \o NumberToString(item.val),
                                                  !.items = Tail(@)])
           ELSE IF item.type = "boolean"
           THEN ReplaceTop(Frames(c), [top EXCEPT !.result = separated \o (IF item.val THEN <<49>>
                                                                           ELSE <<48>>),
                                                  !.items = Tail(@)])
           ELSE Push(ReplaceTop(Frames(c), [top EXCEPT !.result = separated, !.at = "nested"]),
                     ListFrame(item.val)))

(* The top frame is at a return: lines 89, 217, 219, 221 and 51.           *)
AtReturn(frame) ==
  \/ frame.fn = "tclQuote" /\ frame.at = "return"
  \/ frame.fn = "tclQuote" /\ frame.at = "slash" /\ frame.todo = <<>>
  \/ frame.fn = "tclList" /\ frame.at = "loop" /\ frame.items = <<>>

(* The frames once the top frame has returned value to the frame below: a  *)
(* nested list's encoding goes on to tclQuote (line 18), a quoted element  *)
(* is added to the list's result (line 49).                                *)
Deliver(frames, value) ==
  LET below == Pop(frames)
      waiting == below[Len(below)]
  IN  IF below = <<>> THEN below
      ELSE IF waiting.fn = "tclList" /\ waiting.at = "nested"
           THEN Push(ReplaceTop(below, [waiting EXCEPT !.at = "quoted"]), QuoteFrame(value))
      ELSE IF waiting.fn = "tclList" /\ waiting.at = "quoted"
           THEN ReplaceTop(below, [waiting EXCEPT !.result = @ \o value,
                                                  !.items = Tail(@),
                                                  !.at = "loop"])
      ELSE below

(* The running call returns: to the call that made it, or to the thread.   *)
Return(c) ==
  /\ IsRunning(c)
  /\ AtReturn(TopFrame(c))
  /\ stack' = [stack EXCEPT ![Home(c)] = Deliver(@, TopFrame(c).result)]
  /\ overlap' = [overlap EXCEPT ![c] = @ \/ status[3 - c] = "running"]
  /\ IF Pop(Frames(c)) = <<>>
     THEN /\ status' = [status EXCEPT ![c] = "returned"]
          /\ returnValue' = [returnValue EXCEPT ![c] = TopFrame(c).result]
     ELSE UNCHANGED <<status, returnValue>>
  /\ UNCHANGED <<restVars, listVars, quoteVars, call>>

InitThreads == ListIdle /\ QuoteIdle /\ ThreadsIdle /\ RestIdle

StepThread(c) ==
  \/ ScanIteration(c)
  \/ ScanExit(c)
  \/ ChooseQuoting(c)
  \/ SlashIteration(c)
  \/ ListIteration(c)
  \/ Return(c)

NextThreads ==
  \E c \in Threads :
    \/ \E toCall \in ThreadCalls : Call(c, toCall)
    \/ ScanIteration(c)
    \/ ScanExit(c)
    \/ ChooseQuoting(c)
    \/ SlashIteration(c)
    \/ ListIteration(c)
    \/ Return(c)

SpecThreads == InitThreads /\ [][NextThreads]_vars

(* One thread on its own: it makes one call after the other, and a call    *)
(* that is running goes on running.                                        *)
AloneCalls ==
  ThreadCalls
    \cup {[fn |-> "tclQuote", arg |-> str] :
            str \in UnitTestTexts \cup {<<55357>>, <<56832, 55357>>, <<55357, 56832>>}}
    \cup {[fn |-> "tclList", arg |-> items] :
            items \in {RecursionSource, <<Iterable(RecursionSource)>>}}

NextAlone ==
  \/ \E toCall \in AloneCalls : Call(1, toCall)
  \/ ScanIteration(1)
  \/ ScanExit(1)
  \/ ChooseQuoting(1)
  \/ SlashIteration(1)
  \/ ListIteration(1)
  \/ Return(1)

SpecAlone == InitThreads /\ [][NextAlone]_vars /\ WF_vars(StepThread(1))

---------------------------------------------------------------------------
(* AnimationLoop (src/client-misc.ts): a wrapper around                    *)
(* requestAnimationFrame().  The browser keeps the requested callbacks     *)
(* and delivers each one once, with the frame's time.  events is the       *)
(* history of what the loop and its user did.                              *)

MaxEvents == 12
MaxTick == 2

RequestEvent == [kind |-> "request"]
CancelEvent == [kind |-> "cancel"]
CallbackEvent(time) == [kind |-> "callback", time |-> time]
WakeEvent(time) == [kind |-> "wake", time |-> time]

(* if (this.#cancelled) ... in a callback that ignores the flag            *)
RunsCallbackAlways(isCancelled) == TRUE

(* if (!this.#cancelled) *)
RunsCallback(isCancelled) == ~isCancelled

(* new AnimationLoop(onWake) *)
Construct ==
  /\ ~constructed
  /\ constructed' = TRUE
  /\ cancelled' = FALSE
  /\ pendingFrames' = pendingFrames + 1
  /\ events' = Append(events, RequestEvent)
  /\ UNCHANGED <<clock, miscVars, listVars, quoteVars, callVars>>

(* cancel(), called by the loop's user between two frames *)
Cancel ==
  /\ constructed
  /\ Len(events) < MaxEvents
  /\ cancelled' = TRUE
  /\ events' = Append(events, CancelEvent)
  /\ UNCHANGED <<constructed, pendingFrames, clock, miscVars, listVars, quoteVars, callVars>>

(* The browser delivers a requested callback: callback(time).  onWake is   *)
(* the user's code; it may call cancel().                                  *)
Callback(time, onWakeCancels) ==
  /\ pendingFrames > 0
  /\ Len(events) + 4 <= MaxEvents
  /\ clock' = time
  /\ IF RunsCallback(cancelled)
       THEN /\ pendingFrames' = (pendingFrames - 1) + 1
            /\ cancelled' = (cancelled \/ onWakeCancels)
            /\ events' = events \o <<CallbackEvent(time), RequestEvent, WakeEvent(time)>>
                           \o (IF onWakeCancels THEN <<CancelEvent>> ELSE <<>>)
       ELSE /\ pendingFrames' = pendingFrames - 1
            /\ events' = Append(events, CallbackEvent(time))
            /\ UNCHANGED cancelled
  /\ UNCHANGED <<constructed, miscVars, listVars, quoteVars, callVars>>

InitLoop == ListIdle /\ QuoteIdle /\ ThreadsIdle /\ RestIdle

NextLoop ==
  \/ Construct
  \/ Cancel
  \/ \E time \in (clock + 1)..(clock + MaxTick), onWakeCancels \in BOOLEAN :
       Callback(time, onWakeCancels)

SpecLoop == InitLoop /\ [][NextLoop]_vars

---------------------------------------------------------------------------
(* pick (src/misc.ts) and positiveModulo.  Math.random() is a number in    *)
(* [0, 1): the model draws it from the multiples of 1 / RandomSteps.       *)

MaxArrayLen == 3
RandomSteps == 4
MaxNumber == 7
MaxDenominator == 3

ArrayItems == {"a", "b", "c"}

RECURSIVE Arrays(_)
Arrays(n) ==
  IF n = 0 THEN {<<>>}
  ELSE Arrays(n - 1) \cup {Append(rest, item) : rest \in Arrays(n - 1), item \in ArrayItems}

Undefined == [kind |-> "returned", value |-> "undefined"]
NaN == [kind |-> "returned", value |-> "NaN"]
Returned(value) == [kind |-> "returned", value |-> value]

(* (Math.random() * array.length) | 0, for Math.random() = random / RandomSteps *)
RandomIndex(random, length) == (random * length) \div RandomSteps

(* array[index]: undefined when the array has no such index *)
ElementAt(array, index) ==
  IF index < Len(array) THEN Returned(array[index + 1]) ELSE Undefined

pick(array, random) == ElementAt(array, RandomIndex(random, Len(array)))

Abs(x) == IF x < 0 THEN -x ELSE x

(* numerator % denominator in JavaScript: the sign of the numerator *)
Remainder(numerator, denominator) ==
  IF numerator >= 0 THEN numerator % Abs(denominator)
  ELSE -((-numerator) % Abs(denominator))

(* return numerator % denominator; *)
RemainderOnly(numerator, denominator) ==
  IF denominator = 0 THEN NaN ELSE Returned(Remainder(numerator, denominator))

positiveModulo(numerator, denominator) ==
  IF denominator = 0 THEN NaN
  ELSE LET simpleAnswer == Remainder(numerator, denominator)
       IN IF simpleAnswer < 0 THEN Returned(simpleAnswer + Abs(denominator))
          ELSE Returned(simpleAnswer)

CallPick(array, random) ==
  /\ called' = [fn |-> "pick", array |-> array, random |-> random]
  /\ outcome' = pick(array, random)
  /\ UNCHANGED <<loopVars, listVars, quoteVars, callVars>>

CallPositiveModulo(numerator, denominator) ==
  /\ called' = [fn |-> "positiveModulo", numerator |-> numerator,
                denominator |-> denominator]
  /\ outcome' = positiveModulo(numerator, denominator)
  /\ UNCHANGED <<loopVars, listVars, quoteVars, callVars>>

InitMisc == ListIdle /\ QuoteIdle /\ ThreadsIdle /\ RestIdle

NextMisc ==
  \/ \E array \in Arrays(MaxArrayLen), random \in 0..(RandomSteps - 1) :
       CallPick(array, random)
  \/ \E numerator \in (-MaxNumber)..MaxNumber,
        denominator \in (-MaxDenominator)..MaxDenominator :
       CallPositiveModulo(numerator, denominator)

SpecMisc == InitMisc /\ [][NextMisc]_vars

---------------------------------------------------------------------------
(* What the claims are stated with.                                        *)

(* The string form of a value: a text itself, a number's and a boolean's   *)
(* text, a nested list's encoding.                                         *)
StringForm(v) ==
  IF v.type = "string" THEN v.val
  ELSE IF v.type = "number" THEN NumberToString(v.val)
  ELSE IF v.type = "boolean" THEN (IF v.val THEN <<49>> ELSE <<48>>)
  ELSE tclList(v.val)

StringForms(items) == [k \in 1..Len(items) |-> StringForm(items[k])]

IsFlat(items) == \A k \in 1..Len(items) : items[k].type # "list"

IsSingle(type) == Len(list) = 1 /\ list[1].type = type

Braced(str) == <<OpenBrace>> \o str \o <<CloseBrace>>

(* Larger lists an element is put into: the text before it, the text       *)
(* after it, and the elements these hold.                                  *)
Contexts ==
  {[before |-> <<>>, after |-> <<>>, first |-> <<>>, last |-> <<>>],
   [before |-> <<97, Space>>, after |-> <<Space, 97>>,
    first |-> <<<<97>>>>, last |-> <<<<97>>>>],
   [before |-> <<OpenBrace, Space, CloseBrace, Space>>,
    after |-> <<Tab, Backslash, CloseBrace>>,
    first |-> <<<<Space>>>>, last |-> <<<<CloseBrace>>>>]}

(* The strings strs with one space between neighbours.                     *)
RECURSIVE JoinWithSpace(_)
JoinWithSpace(strs) ==
  IF strs = <<>> THEN <<>>
  ELSE IF Len(strs) = 1 THEN strs[1]
  ELSE strs[1] \o <<Space>> \o JoinWithSpace(Tail(strs))

RECURSIVE TotalLen(_)
TotalLen(strs) == IF strs = <<>> THEN 0 ELSE Len(Head(strs)) + TotalLen(Tail(strs))

(* The nested lists in items, at any depth.                                *)
RECURSIVE NestedIn(_)
NestedIn(items) ==
  UNION {IF items[k].type = "list" THEN {items[k]} \cup NestedIn(items[k].val) ELSE {} :
         k \in 1..Len(items)}

(* A string tclQuote has to quote: the empty string, and one that holds a  *)
(* space, a double quote, a backslash, a brace or an unprintable ASCII     *)
(* character.                                                              *)
HoldsSpecial(str) ==
  \/ str = <<>>
  \/ \E k \in 1..Len(str) :
       str[k] \in {Space, DoubleQuote, Backslash, OpenBrace, CloseBrace, Delete}
         \/ str[k] < FirstPrintable

---------------------------------------------------------------------------
(* C1: a list of texts, numbers and booleans, encoded by tclList and read  *)
(* back by the decoder, gives the values' string forms: as many elements,  *)
(* in the same order, each with its exact content.                         *)
C1_FlatRoundTrip ==
  (pc = "returned" /\ IsFlat(list))
    => decode(output) = Decoded(StringForms(list))

C1_Witness ==
  /\ pc = "returned"
  /\ Len(list) = 3
  /\ list[1].type = "string" /\ list[1].val = <<Backslash>>
  /\ list[2].type = "number"
  /\ list[3].type = "boolean"
  /\ decode(output) = Decoded(StringForms(list))

(* C2: for every string, tclQuote's result put into a larger list is read  *)
(* by the decoder as exactly one element, whose value is the string.       *)
C2_QuoteRoundTrip ==
  (pc = "returned" /\ IsSingle("string"))
    => \A c \in Contexts :
         decode(c.before \o output \o c.after)
           = Decoded(c.first \o <<list[1].val>> \o c.last)

C2_Witness ==
  /\ pc = "returned"
  /\ list = <<Text(<<CloseBrace, Space, Backslash>>)>>
  /\ output = <<Backslash, CloseBrace, Backslash, Space, Backslash, Backslash>>
  /\ decode(<<97, Space>> \o output \o <<Space, 97>>)
       = Decoded(<<<<97>>, list[1].val, <<97>>>>)

(* C3: quoting composes under nesting.  A string quoted twice, put into a  *)
(* larger list and decoded twice gives the string back; and the element a  *)
(* nested list gets in its parent decodes to one item which, decoded       *)
(* again, gives the string forms of the nested list's items.               *)
C3_NestedRoundTrip ==
  pc = "returned" =>
    /\ IsSingle("string") =>
         LET outer == decode(<<97, Space>> \o tclQuote(output) \o <<Space, 97>>)
         IN  /\ outer.ok
             /\ Len(outer.elements) = 3
             /\ decode(outer.elements[2]) = Decoded(<<list[1].val>>)
    /\ \A k \in 1..Len(list) :
         list[k].type = "list" =>
           LET outer == decode(output)
           IN  /\ outer.ok
               /\ Len(outer.elements) = Len(list)
               /\ decode(outer.elements[k]) = Decoded(StringForms(list[k].val))

C3_Witness ==
  /\ pc = "returned"
  /\ list = <<Text(<<97>>), Iterable(<<Text(<<OpenBrace>>)>>)>>
  /\ output = <<97, Space, OpenBrace, Backslash, OpenBrace, CloseBrace>>
  /\ decode(output).elements[2] = <<Backslash, OpenBrace>>
  /\ decode(decode(output).elements[2]) = Decoded(<<<<OpenBrace>>>>)

(* C4: tclQuote("") is the two characters "{}", so an empty text anywhere  *)
(* in a list is a field of its own in the output, never an empty string.   *)
C4_EmptyString ==
  pc = "returned" =>
    /\ list = <<Text(<<>>)>> => output = <<OpenBrace, CloseBrace>>
    /\ \A k \in 1..Len(list) :
         list[k] = Text(<<>>) =>
           LET before == tclList(SubSeq(list, 1, k - 1))
               start == IF k = 1 THEN 1 ELSE Len(before) + 2
           IN  /\ output # <<>>
               /\ SubSeq(output, 1, start - 1)
                    = IF k = 1 THEN <<>> ELSE before \o <<Space>>
               /\ SubSeq(output, start, start + 1) = <<OpenBrace, CloseBrace>>
               /\ start + 1 = Len(output) \/ output[start + 2] = Space

C4_Witness ==
  /\ pc = "returned"
  /\ Len(list) = 3
  /\ list[2] = Text(<<>>)
  /\ list[1].type = "string" /\ list[3].type = "string"
  /\ SubSeq(output, Len(tclQuote(list[1].val)) + 1, Len(tclQuote(list[1].val)) + 4)
       = <<Space, OpenBrace, CloseBrace, Space>>

(* C5: tclList of the empty sequence is the empty string, and tclList of   *)
(* a sequence of one element is that element's encoded string, with no     *)
(* separator.                                                              *)
C5_EmptyAndSingleton ==
  pc = "returned" =>
    /\ list = <<>> => output = <<>>
    /\ Len(list) = 1 => output = encodeTclListElement(list[1])

C5_Witness ==
  /\ pc = "returned"
  /\ list = <<Iterable(<<>>)>>
  /\ tclList(list[1].val) = <<>>
  /\ output = <<OpenBrace, CloseBrace>>

(* C6: for n >= 1 values, tclList returns the elements' strings in the     *)
(* order of the input with exactly one space between neighbours: n - 1     *)
(* separators, none leading, none trailing.                                *)
C6_JoinedBySingleSpaces ==
  (pc = "returned" /\ Len(list) >= 1) =>
    LET strs == [k \in 1..Len(list) |-> encodeTclListElement(list[k])]
    IN  /\ output = JoinWithSpace(strs)
        /\ Len(output) = TotalLen(strs) + (Len(list) - 1)

C6_Witness ==
  /\ pc = "returned"
  /\ list = <<Number(-12), Text(<<Space>>), Boolean(TRUE)>>
  /\ output = <<45, 49, 50, Space, OpenBrace, Space, CloseBrace, Space, 49>>

(* C7: the dispatch on the element's type: true is encoded as "1", false   *)
(* as "0", a number as its default string conversion, a text as tclQuote   *)
(* of the text.                                                            *)
C7_TypeDispatch ==
  (pc = "returned" /\ Len(list) = 1) =>
    /\ list[1] = Boolean(TRUE) => output = <<49>>
    /\ list[1] = Boolean(FALSE) => output = <<48>>
    /\ list[1].type = "number" => output = NumberToString(list[1].val)
    /\ list[1] = Number(0) => output = <<48>>
    /\ list[1] = Number(-12) => output = <<45, 49, 50>>
    /\ list[1] = Number(305) => output = <<51, 48, 53>>
    /\ list[1].type = "string" => output = tclQuote(list[1].val)

C7_Witness ==
  /\ pc = "returned"
  /\ list = <<Boolean(FALSE)>>
  /\ output = <<48>>

(* C8: the element of a nested list, at any depth, is tclQuote of the      *)
(* nested list's own encoding; the unit test's recursion source encodes    *)
(* to "{} {1 2 three {1 0}}" and, as a single element, to                  *)
(* "{{} {1 2 three {1 0}}}".                                               *)
RecursionInner ==
  <<OpenBrace, CloseBrace, Space, OpenBrace, 49, Space, 50, Space,
    116, 104, 114, 101, 101, Space, OpenBrace, 49, Space, 48, CloseBrace, CloseBrace>>

C8_NestedElement ==
  pc = "returned" =>
    /\ IsSingle("list") => output = tclQuote(tclList(list[1].val))
    /\ \A v \in NestedIn(list) : encodeTclListElement(v) = tclQuote(tclList(v.val))
    /\ list = RecursionSource => output = RecursionInner
    /\ list = <<Iterable(RecursionSource)>> => output = Braced(RecursionInner)

C8_Witness ==
  /\ pc = "returned"
  /\ list = <<Iterable(RecursionSource)>>
  /\ output = Braced(RecursionInner)

(* C9, as claimed: the element a nested list gets in its parent is never   *)
(* the bare, unmodified nested encoding.                                   *)
C9_AlwaysQuoted ==
  (pc = "returned" /\ IsSingle("list")) => output # tclList(list[1].val)

(* C9, amended: the element a nested list gets in its parent is tclQuote   *)
(* of the nested encoding.  It differs from the bare nested encoding       *)
(* exactly when the nested encoding is empty or holds a space, a double    *)
(* quote, a backslash, a brace or an unprintable ASCII character, so       *)
(* whenever the nested list has no item or more than one; it is the bare   *)
(* nested encoding otherwise.                                              *)
C9_QuotedWhenNeeded ==
  (pc = "returned" /\ IsSingle("list")) =>
    LET inner == tclList(list[1].val)
    IN  /\ output = tclQuote(inner)
        /\ output # inner <=> HoldsSpecial(inner)
        /\ Len(list[1].val) # 1 => output # inner

C9_Witness ==
  /\ pc = "returned"
  /\ list = <<Iterable(<<Number(305), Text(<<97>>)>>)>>
  /\ output = <<OpenBrace, 51, 48, 53, Space, 97, CloseBrace>>

(* C10: the quoting is a function of the string alone.  Exactly one of     *)
(* the three forms is returned: the string unchanged, the string in one    *)
(* pair of braces, or its backslash-escaped form (which differs from the   *)
(* string); and a call on the string of a remembered earlier call, with    *)
(* any calls in between, returns the result of that call.  (The caller     *)
(* goes on when it remembers a call, so a returned call is a later one.)   *)
ReturnedForms ==
  {form \in {"Unquoted", "BraceQuoted", "BackslashQuoted"} :
     \/ form = "Unquoted" /\ result = s
     \/ form = "BraceQuoted" /\ result = Braced(s)
     \/ form = "BackslashQuoted" /\ result = SlashQuote(ArrayFrom(s)) /\ result # s}

C10_PureFunction ==
  qpc = "returned" =>
    /\ Cardinality(ReturnedForms) = 1
    /\ (remembered # <<>> /\ remembered[1] = s) => result = remembered[2]

C10_Witness ==
  /\ qpc = "returned"
  /\ remembered # <<>>
  /\ remembered[1] = s
  /\ s = <<Space>>
  /\ braceCount = 0
  /\ result = remembered[2]
  /\ ReturnedForms = {"BraceQuoted"}

(* The depth of the braces the scan counts in the code points array from   *)
(* position k on, entered at depth depth: a backslash takes the next code  *)
(* point with it.  -1 when a close brace comes at depth 0.                 *)
RECURSIVE NestingFrom(_, _, _)
NestingFrom(array, k, depth) ==
  IF k > Len(array) THEN depth
  ELSE IF array[k] = <<Backslash>> THEN NestingFrom(array, k + 2, depth)
  ELSE IF array[k] = <<OpenBrace>> THEN NestingFrom(array, k + 1, depth + 1)
  ELSE IF array[k] = <<CloseBrace>>
       THEN IF depth = 0 THEN -1 ELSE NestingFrom(array, k + 1, depth - 1)
  ELSE NestingFrom(array, k + 1, depth)

ProperlyNested(str) == NestingFrom(ArrayFrom(str), 1, 0) = 0

HoldsAny(str, units) == \E k \in 1..Len(str) : str[k] \in units

HoldsControl(str) == \E k \in 1..Len(str) : str[k] < FirstPrintable \/ str[k] = Delete

(* C11, as claimed: a string with balanced braces and no control           *)
(* character, space, double quote or backslash is returned unchanged.      *)
C11_BalancedUnchanged ==
  (/\ pc = "returned"
   /\ IsSingle("string")
   /\ ProperlyNested(list[1].val)
   /\ ~HoldsControl(list[1].val)
   /\ ~HoldsAny(list[1].val, {Space, DoubleQuote, Backslash}))
    => output = list[1].val

(* C11, amended: a non-empty string with no brace, control character,      *)
(* space, double quote or backslash is returned unchanged; a string of     *)
(* these characters and of balanced braces, with at least one brace, is    *)
(* returned in one more pair of braces, and the empty string as "{}".      *)
C11_PlainUnchanged ==
  (/\ pc = "returned"
   /\ IsSingle("string")
   /\ ProperlyNested(list[1].val)
   /\ ~HoldsControl(list[1].val)
   /\ ~HoldsAny(list[1].val, {Space, DoubleQuote, Backslash}))
    => IF list[1].val # <<>> /\ ~HoldsAny(list[1].val, {OpenBrace, CloseBrace})
       THEN output = list[1].val
       ELSE output = Braced(list[1].val)

C11_Witness ==
  /\ pc = "returned"
  /\ list = <<Text(<<97, 55357, 56832>>)>>
  /\ ~HoldsSpecial(list[1].val)
  /\ output = <<97, 55357, 56832>>

(* C12: a string that holds at least one space and otherwise only plain    *)
(* characters (no control character, double quote, backslash or brace) is  *)
(* returned as "{" + s + "}", the string copied between the braces as it   *)
(* is; "a b c" gives "{a b c}".                                            *)
C12_SpaceBraced ==
  (pc = "returned" /\ IsSingle("string")) =>
    /\ (/\ HoldsAny(list[1].val, {Space})
        /\ ~HoldsControl(list[1].val)
        /\ ~HoldsAny(list[1].val, {DoubleQuote, Backslash, OpenBrace, CloseBrace}))
         => /\ Len(output) = Len(list[1].val) + 2
            /\ output[1] = OpenBrace
            /\ output[Len(output)] = CloseBrace
            /\ SubSeq(output, 2, Len(output) - 1) = list[1].val
    /\ list[1].val = <<97, Space, 98, Space, 99>>
         => output = <<OpenBrace, 97, Space, 98, Space, 99, CloseBrace>>

C12_Witness ==
  /\ pc = "returned"
  /\ list = <<Text(<<97, Space, 98, Space, 99>>)>>
  /\ output = <<OpenBrace, 97, Space, 98, Space, 99, CloseBrace>>

(* The number of backslashes str ends in.                                  *)
RECURSIVE TrailingRun(_)
TrailingRun(str) ==
  IF str = <<>> \/ str[Len(str)] # Backslash THEN 0
  ELSE 1 + TrailingRun(SubSeq(str, 1, Len(str) - 1))

(* str with a backslash before every space, double quote, backslash and    *)
(* brace.                                                                  *)
RECURSIVE BackslashPrefixed(_)
BackslashPrefixed(str) ==
  IF str = <<>> THEN <<>>
  ELSE (IF Head(str) \in {Space, DoubleQuote, Backslash, OpenBrace, CloseBrace}
        THEN <<Backslash, Head(str)>> ELSE <<Head(str)>>)
         \o BackslashPrefixed(Tail(str))

(* C13: a string that ends in an odd number of backslashes is returned in  *)
(* the backslash-escaped form: every backslash doubled, every space,       *)
(* double quote and brace after a backslash, no braces around it ("a bc\"  *)
(* gives "a\ bc\\").  An even number of backslashes at the end does not    *)
(* force it: put after a string that is not backslash-escaped on its own   *)
(* (and does not end in a backslash), it gives the brace-quoted form.      *)
C13_TrailingBackslash ==
  (pc = "returned" /\ IsSingle("string")) =>
    LET str == list[1].val
        run == TrailingRun(str)
        start == SubSeq(str, 1, Len(str) - run)
    IN  /\ run % 2 = 1 =>
              /\ output = SlashQuote(ArrayFrom(str))
              /\ ~HoldsControl(str) => output = BackslashPrefixed(str)
              /\ SubSeq(output, Len(output) - 1, Len(output)) = <<Backslash, Backslash>>
              /\ output # Braced(str)
        /\ (/\ run >= 2
            /\ run % 2 = 0
            /\ start = <<>> \/ tclQuote(start) \in {start, Braced(start)})
             => output = Braced(str)
        /\ str = <<97, Space, 98, 99, Backslash>>
             => output = <<97, Backslash, Space, 98, 99, Backslash, Backslash>>

C13_Witness ==
  /\ pc = "returned"
  /\ list = <<Text(<<97, Space, 98, 99, Backslash>>)>>
  /\ TrailingRun(list[1].val) = 1
  /\ output = <<97, Backslash, Space, 98, 99, Backslash, Backslash>>

(* Every brace of str comes directly after a backslash.                    *)
BracesEscaped(str) ==
  \A k \in 1..Len(str) :
    str[k] \in {OpenBrace, CloseBrace} => (k > 1 /\ str[k - 1] = Backslash)

(* C14: brace quoting is chosen only when the counted braces are properly  *)
(* nested.  When a close brace comes at depth 0, or the depth is not 0 at  *)
(* the end of the string, the backslash-escaped form is returned: every    *)
(* brace after a backslash, no braces around it; so for the unit tests     *)
(* "{{{}}", "{{}}}", "{}}{{}" and 'a"b{c'.                                 *)
C14_BracesProperlyNested ==
  (pc = "returned" /\ IsSingle("string")) =>
    LET str == list[1].val
    IN  /\ ~ProperlyNested(str) =>
              /\ output = SlashQuote(ArrayFrom(str))
              /\ BracesEscaped(output)
              /\ output # Braced(str)
        /\ output = Braced(str) => ProperlyNested(str)
        /\ str = <<OpenBrace, OpenBrace, OpenBrace, CloseBrace, CloseBrace>>
             => output = <<Backslash, OpenBrace, Backslash, OpenBrace, Backslash, OpenBrace,
                           Backslash, CloseBrace, Backslash, CloseBrace>>
        /\ str = <<OpenBrace, OpenBrace, CloseBrace, CloseBrace, CloseBrace>>
             => output = <<Backslash, OpenBrace, Backslash, OpenBrace, Backslash, CloseBrace,
                           Backslash, CloseBrace, Backslash, CloseBrace>>
        /\ str = <<OpenBrace, CloseBrace, CloseBrace, OpenBrace, OpenBrace, CloseBrace>>
             => output = <<Backslash, OpenBrace, Backslash, CloseBrace, Backslash, CloseBrace,
                           Backslash, OpenBrace, Backslash, OpenBrace, Backslash, CloseBrace>>
        /\ str = <<97, DoubleQuote, 98, OpenBrace, 99>>
             => output = <<97, Backslash, DoubleQuote, 98, Backslash, OpenBrace, 99>>

C14_Witness ==
  /\ pc = "returned"
  /\ list = <<Text(<<OpenBrace, CloseBrace, CloseBrace, OpenBrace, OpenBrace, CloseBrace>>)>>
  /\ ~ProperlyNested(list[1].val)
  /\ output = <<Backslash, OpenBrace, Backslash, CloseBrace, Backslash, CloseBrace,
                Backslash, OpenBrace, Backslash, OpenBrace, Backslash, CloseBrace>>

(* C15: a string that holds a code point below 32 or the code point 127    *)
(* is returned in the backslash-escaped form, and the returned string      *)
(* holds no such code point.                                               *)
C15_UnprintableQuoted ==
  (pc = "returned" /\ IsSingle("string") /\ HoldsControl(list[1].val)) =>
    /\ output = SlashQuote(ArrayFrom(list[1].val))
    /\ ~HoldsControl(output)

(* One lowercase hexadecimal digit.                                        *)
HexDigitLower(d) == IF d < 10 THEN 48 + d ELSE 87 + d

(* The piece of the escaped form that stands for one code point.           *)
EscapePiece(character) ==
  LET unit == character[1]
  IN  IF Len(character) > 1 THEN character
      ELSE IF unit = Backspace THEN <<Backslash, 98>>
      ELSE IF unit = FormFeed THEN <<Backslash, 102>>
      ELSE IF unit = Newline THEN <<Backslash, 110>>
      ELSE IF unit = CarriageReturn THEN <<Backslash, 114>>
      ELSE IF unit = Tab THEN <<Backslash, 116>>
      ELSE IF unit = VerticalTab THEN <<Backslash, 118>>
      ELSE IF unit \in {Space, DoubleQuote, Backslash, OpenBrace, CloseBrace}
           THEN <<Backslash, unit>>
      ELSE IF unit < 32 \/ unit = 127
           THEN <<Backslash, 120, HexDigitLower(unit \div 16), HexDigitLower(unit % 16)>>
      ELSE character

RECURSIVE EscapePieces(_)
EscapePieces(array) ==
  IF array = <<>> THEN <<>>
  ELSE EscapePiece(Head(array)) \o EscapePieces(Tail(array))

(* Backslash quoting is chosen for str: the scan ends with                 *)
(* requireSlashQuote set or with braces left open (lines 139-147).         *)
SlashQuoteChosen(str) ==
  LET st == Scan(ArrayFrom(str),
                 [i |-> 0, requireSlashQuote |-> FALSE, requireBraceQuote |-> FALSE,
                  braceCount |-> 0])
  IN  str # <<>> /\ (st.requireSlashQuote \/ st.braceCount # 0)

(* The part of the unit test's table that stands for the ASCII code point  *)
(* c: it starts after one unit for each code point before c, three more    *)
(* for each that is written with \x and one more for each that is written  *)
(* with one backslash.                                                     *)
TableStart(c) ==
  c + 3 * Cardinality({d \in 0..(c - 1) : Len(EscapePiece(<<d>>)) = 4})
    + Cardinality({d \in 0..(c - 1) : Len(EscapePiece(<<d>>)) = 2})

TableSlice(c) ==
  SubSeq(ReferenceTable, TableStart(c) + 1, TableStart(c) + Len(EscapePiece(<<c>>)))

(* C16: when backslash quoting is chosen, the returned string is the       *)
(* pieces of the input's code points in order and nothing else: \b \f \n   *)
(* \r \t \v for the six named control characters, a backslash and the     *)
(* character for space, double quote, backslash and the braces, \x and     *)
(* two lowercase hexadecimal digits for the other code points below 32     *)
(* and for 127, the code point itself otherwise; no braces around it.      *)
(* Each ASCII code point, quoted after "\x00", gives its part of the unit  *)
(* test's table, and the parts make up the table.                          *)
C16_SlashQuotedPieces ==
  (pc = "returned" /\ IsSingle("string") /\ SlashQuoteChosen(list[1].val)) =>
    LET str == list[1].val
    IN  /\ output = EscapePieces(ArrayFrom(str))
        /\ str \in AsciiPairs =>
              /\ output = TableSlice(0) \o TableSlice(str[2])
              /\ str[2] = 127 => TableStart(127) + Len(TableSlice(127)) = Len(ReferenceTable)
        /\ str = Utf8AndBackslash =>
              output = <<68, 111, 110, 8217, 116, Backslash, Space, 115, 116, 111, 112,
                         Backslash, Space, 104, 101, 114, 101, Backslash, Space,
                         Backslash, OpenBrace>>

C16_Witness ==
  /\ pc = "returned"
  /\ list = <<Text(<<0, 127>>)>>
  /\ SlashQuoteChosen(list[1].val)
  /\ output = <<Backslash, 120, 48, 48, Backslash, 120, 55, 102>>
  /\ output = SubSeq(ReferenceTable, 1, 4) \o SubSeq(ReferenceTable, 217, 220)

(* U+1F600, the code point of the start-up check (line 62): two code      *)
(* units.                                                                  *)
Astral == <<55357, 56832>>

(* str with piece put in after its first k code units.                     *)
InsertAt(str, k, piece) == SubSeq(str, 1, k) \o piece \o SubSeq(str, k + 1, Len(str))

(* The places of str a code point can be put in: between two code points   *)
(* or at an end, and not directly after a backslash.                       *)
InsertPlaces(str) ==
  {k \in 0..Len(str) :
     /\ ~(k >= 1 /\ k < Len(str) /\ IsHighSurrogate(str[k]) /\ IsLowSurrogate(str[k + 1]))
     /\ ~(k >= 1 /\ str[k] = Backslash)}

(* The quoting chosen for str.                                             *)
QuotingOf(str) ==
  IF SlashQuoteChosen(str) THEN "BackslashQuoted"
  ELSE IF tclQuote(str) = Braced(str) THEN "BraceQuoted"
  ELSE "Unquoted"

(* Putting U+1F600 into str at place k leaves the quoting chosen and all   *)
(* other characters of the result as they are; the code point is one       *)
(* element for the scan and is in the result unchanged.                    *)
AstralTransparent(str, out, k) ==
  LET with == InsertAt(str, k, Astral)
  IN  /\ Len(ArrayFrom(with)) = Len(ArrayFrom(str)) + 1
      /\ QuotingOf(with) = QuotingOf(str)
      /\ \E j \in 0..Len(out) : tclQuote(with) = InsertAt(out, j, Astral)

(* C17, as claimed: for every string, the empty one included.              *)
C17_AstralNeverMatters ==
  (pc = "returned" /\ IsSingle("string")) =>
    \A k \in InsertPlaces(list[1].val) : AstralTransparent(list[1].val, output, k)

(* C17, amended: the strings are iterated by code point, and a code point  *)
(* above the Basic Multilingual Plane put into a non-empty string, not     *)
(* directly after a backslash, changes neither the quoting chosen nor any  *)
(* other character of the result, and is in the result unchanged and       *)
(* unsplit, whichever of the three quotings is chosen.  (Put into the      *)
(* empty string it changes the result from "{}" to the code point alone.)  *)
C17_AstralTransparent ==
  (pc = "returned" /\ IsSingle("string")) =>
    /\ list[1].val # <<>> =>
         \A k \in InsertPlaces(list[1].val) : AstralTransparent(list[1].val, output, k)
    /\ list[1].val = <<>> => (output = <<OpenBrace, CloseBrace>> /\ tclQuote(Astral) = Astral)

C17_Witness ==
  /\ pc = "returned"
  /\ list = <<Text(<<OpenBrace, 55357, 56832>>)>>
  /\ output = <<Backslash, OpenBrace, 55357, 56832>>
  /\ InsertPlaces(list[1].val) = {0, 1, 3}
  /\ tclQuote(InsertAt(list[1].val, 1, Astral))
       = <<Backslash, OpenBrace, 55357, 56832, 55357, 56832>>

(* C19: the length of the result, in UTF-16 code units, by the quoting     *)
(* chosen: the input's length when unquoted, the input's length plus 2     *)
(* when brace-quoted, and from the input's length plus 1 to 4 times the    *)
(* input's length when backslash-quoted.                                   *)
C19_LengthBounds ==
  (pc = "returned" /\ IsSingle("string")) =>
    LET str == list[1].val
    IN  /\ QuotingOf(str) = "Unquoted" => Len(output) = Len(str)
        /\ QuotingOf(str) = "BraceQuoted" => Len(output) = Len(str) + 2
        /\ QuotingOf(str) = "BackslashQuoted" =>
              /\ Len(output) >= Len(str) + 1
              /\ Len(output) <= 4 * Len(str)

C19_Witness ==
  /\ pc = "returned"
  /\ list = <<Text(<<1, Delete, 1>>)>>
  /\ QuotingOf(list[1].val) = "BackslashQuoted"
  /\ Len(output) = 4 * Len(list[1].val)

(* A string: a finite sequence of UTF-16 code units.                       *)
IsString(value) ==
  /\ DOMAIN value = 1..Len(value)
  /\ \A k \in 1..Len(value) : value[k] \in 0..65535

(* C18: tclQuote and tclList are total.  Whatever the string (one with a   *)
(* lone surrogate too) and whatever the list (a nested one too), a call    *)
(* that has been made returns, what it returns is a string, and no call    *)
(* that is running is in a state it cannot go on from.                     *)
C18_Total ==
  /\ [](status[1] = "returned" => IsString(returnValue[1]))
  /\ [](status[1] = "running" => ENABLED StepThread(1))
  /\ (status[1] = "running") ~> (status[1] = "returned")

C18_Witness ==
  /\ status[1] = "returned"
  /\ call[1] = [fn |-> "tclList", arg |-> <<Iterable(<<>>), Text(<<56832>>)>>]
  /\ returnValue[1] = <<OpenBrace, CloseBrace, Space, 56832>>

(* What the call returns when it runs alone.                               *)
AloneResult(made) ==
  IF made.fn = "tclQuote" THEN tclQuote(made.arg) ELSE tclList(made.arg)

(* C20: two calls of tclQuote / tclList interleaved step by step, with no  *)
(* synchronization, each return what the call returns when run alone: the  *)
(* scan's flags, its brace counter, its index and the result buffers are   *)
(* in the call's own frame, which no step of the other thread touches.     *)
C20_Reentrant ==
  \A c \in Threads :
    /\ status[c] = "returned" => returnValue[c] = AloneResult(call[c])
    /\ status[c] = "running" =>
         /\ stack[c] # <<>>
         /\ stack[c][1].fn = call[c].fn
         /\ IF call[c].fn = "tclQuote" THEN stack[c][1].s = call[c].arg
            ELSE \E n \in 0..Len(call[c].arg) :
                   stack[c][1].items = SubSeq(call[c].arg, n + 1, Len(call[c].arg))
    /\ status[c] = "idle" => stack[c] = <<>>

C20_Witness ==
  /\ status[1] = "returned"
  /\ overlap[1]
  /\ call[1] = [fn |-> "tclQuote", arg |-> <<OpenBrace, CloseBrace>>]
  /\ returnValue[1] = <<OpenBrace, OpenBrace, CloseBrace, CloseBrace>>
  /\ status[2] = "returned"
  /\ overlap[2]
  /\ call[2] = [fn |-> "tclList", arg |-> <<Iterable(<<Text(<<OpenBrace>>), Boolean(TRUE)>>)>>]
  /\ returnValue[2] = <<OpenBrace, Backslash, OpenBrace, Space, 49, CloseBrace>>

(* C21: AnimationLoop keeps exactly one frame requested until cancel():    *)
(* the constructor requests one frame; a callback delivered while not      *)
(* cancelled requests one frame and then calls onWake once with the        *)
(* frame's time; after cancel() nothing is requested and onWake is not     *)
(* called, a pending callback is delivered and does nothing; there is      *)
(* never more than one pending request.                                    *)
CancelledBefore(k) == \E j \in 1..(k - 1) : events[j] = CancelEvent

C21_OneFrameUntilCancel ==
  /\ pendingFrames <= 1
  /\ constructed => events[1] = RequestEvent
  /\ (constructed /\ ~cancelled) => pendingFrames = 1
  /\ cancelled <=> CancelledBefore(Len(events) + 1)
  /\ \A k \in 1..Len(events) :
       /\ (events[k].kind = "callback" /\ ~CancelledBefore(k)) =>
            /\ Len(events) >= k + 2
            /\ events[k + 1] = RequestEvent
            /\ events[k + 2] = WakeEvent(events[k].time)
            /\ Len(events) >= k + 3 => events[k + 3].kind \in {"cancel", "callback"}
       /\ events[k].kind = "wake" =>
            (k > 2 /\ events[k - 2] = CallbackEvent(events[k].time))
       /\ events[k].kind = "request" =>
            (k = 1 \/ (events[k - 1].kind = "callback" /\ events[k + 1].kind = "wake"))
       /\ CancelledBefore(k) => events[k].kind \in {"cancel", "callback"}

(* A callback was delivered after cancel(), after the loop had woken its   *)
(* user twice.                                                             *)
C21_Witness ==
  /\ cancelled
  /\ pendingFrames = 0
  /\ Len(events) >= 8
  /\ events[Len(events)].kind = "callback"
  /\ Cardinality({k \in 1..Len(events) : events[k].kind = "wake"}) = 2

(* C22: pick(array) throws an Error when the array is empty.               *)
C22_ThrowsOnEmpty ==
  (called.fn = "pick" /\ called.array = <<>>) => outcome.kind = "threw"

(* C22, the other half: for a non-empty array pick returns the element at  *)
(* an index in [0, array.length).                                          *)
C22_PicksAnElement ==
  (called.fn = "pick" /\ called.array # <<>>) =>
    \E index \in 0..(Len(called.array) - 1) :
      outcome = Returned(called.array[index + 1])

C22_PickedLast ==
  /\ called.fn = "pick"
  /\ Len(called.array) = MaxArrayLen
  /\ called.random = RandomSteps - 1
  /\ outcome = Returned(called.array[MaxArrayLen])

(* C23: for integers n and d # 0, positiveModulo(n, d) is in [0, |d|) and  *)
(* equals positiveModulo(n + d, d).                                        *)
C23_PositiveModulo ==
  (called.fn = "positiveModulo" /\ called.denominator # 0) =>
    /\ outcome.kind = "returned"
    /\ outcome.value \in 0..(Abs(called.denominator) - 1)
    /\ outcome = positiveModulo(called.numerator + called.denominator, called.denominator)

(* A negative numerator and a negative denominator, the remainder not 0.   *)
C23_Witness ==
  /\ called.fn = "positiveModulo"
  /\ called.numerator = -5
  /\ called.denominator = -3
  /\ outcome = Returned(1)

(* The places of the code points array that directly follow a backslash    *)
(* the scan classifies, the backslash not being the last code point.       *)
RECURSIVE ProtectedFrom(_, _)
ProtectedFrom(array, k) ==
  IF k > Len(array) THEN {}
  ELSE IF array[k] = <<Backslash>> /\ k < Len(array)
       THEN {k + 1} \cup ProtectedFrom(array, k + 2)
  ELSE ProtectedFrom(array, k + 1)

Protected(array) == ProtectedFrom(array, 1)

(* The string the code points of array make.                               *)
RECURSIVE Concat(_)
Concat(array) == IF array = <<>> THEN <<>> ELSE Head(array) \o Concat(Tail(array))

(* The scan's locals when its loop is left.                                *)
ScanOf(array) ==
  Scan(array, [i |-> 0, requireSlashQuote |-> FALSE, requireBraceQuote |-> FALSE,
               braceCount |-> 0])

(* The choice made from the locals st: lines 143-147 and 218-220.          *)
ThreeWay(st) ==
  IF st.requireSlashQuote \/ st.braceCount # 0 THEN "BackslashQuoted"
  ELSE IF st.requireBraceQuote THEN "BraceQuoted"
  ELSE "Unquoted"

(* The depth of the braces of str from position k on with every brace      *)
(* counted, whatever stands before it.  -1 when a close brace comes at     *)
(* depth 0.                                                                *)
RECURSIVE PlainNestingFrom(_, _, _)
PlainNestingFrom(str, k, depth) ==
  IF k > Len(str) THEN depth
  ELSE IF str[k] = OpenBrace THEN PlainNestingFrom(str, k + 1, depth + 1)
  ELSE IF str[k] = CloseBrace
       THEN IF depth = 0 THEN -1 ELSE PlainNestingFrom(str, k + 1, depth - 1)
  ELSE PlainNestingFrom(str, k + 1, depth)

(* Code points to put in a protected place.                                *)
Replacements ==
  {<<97>>, <<Space>>, <<DoubleQuote>>, <<OpenBrace>>, <<CloseBrace>>, <<Backslash>>,
   <<1>>, Astral}

(* A control character or a last backslash stands where the scan            *)
(* classifies it.                                                          *)
ClassifiedControl(array) ==
  \E k \in (1..Len(array)) \ Protected(array) :
    Len(array[k]) = 1 /\ (array[k][1] < FirstPrintable \/ array[k][1] = Delete)

LastBackslashClassified(array) ==
  array # <<>> /\ array[Len(array)] = <<Backslash>> /\ Len(array) \notin Protected(array)

(* C24: the code point directly after a backslash that is not the last     *)
(* code point is not classified: whatever stands there, the scan ends with *)
(* the same flags and the same brace depth and the same quoting is chosen; *)
(* so a string with a protected code point, whose other braces are         *)
(* properly nested and which has no classified control character and no    *)
(* classified last backslash, is returned verbatim between braces, also    *)
(* when its braces counted one by one do not match.                        *)
C24_ProtectedByBackslash ==
  (pc = "returned" /\ IsSingle("string")) =>
    LET str == list[1].val
        array == ArrayFrom(str)
        st == ScanOf(array)
        quoting == QuotingOf(str)
    IN  /\ \A p \in Protected(array) : \A c \in Replacements :
             LET other == [array EXCEPT ![p] = c]
             IN  /\ ScanOf(other) = st
                 /\ QuotingOf(Concat(other)) = quoting
        /\ (/\ Protected(array) # {}
            /\ ProperlyNested(str)
            /\ ~ClassifiedControl(array)
            /\ ~LastBackslashClassified(array)) => output = Braced(str)

(* The unit test's fancy list: "\}" and "\{" leave its braces unmatched    *)
(* when counted one by one; it is returned between braces.                 *)
C24_Witness ==
  /\ pc = "returned"
  /\ IsSingle("string")
  /\ Len(list[1].val) = 20
  /\ Cardinality(Protected(ArrayFrom(list[1].val))) = 3
  /\ PlainNestingFrom(list[1].val, 1, 0) = -1
  /\ output = Braced(list[1].val)

(* C25: tclQuote returns its argument unchanged exactly when the argument  *)
(* is not empty and holds no code point below 32, no code point 127, no    *)
(* space, double quote, backslash or brace.                                *)
C25_UnchangedExactly ==
  (pc = "returned" /\ IsSingle("string")) =>
    (output = list[1].val <=>
       /\ list[1].val # <<>>
       /\ \A k \in 1..Len(list[1].val) :
            /\ list[1].val[k] >= 32
            /\ list[1].val[k] \notin {127, Space, DoubleQuote, Backslash, OpenBrace, CloseBrace})

(* A letter and a lone low surrogate come back unchanged.                  *)
C25_Witness ==
  /\ pc = "returned"
  /\ list = <<Text(<<97, 56832>>)>>
  /\ output = <<97, 56832>>

(* C26: braceCount is never negative during the scan; a close brace met    *)
(* at depth 0 leaves it at 0 and sets requireSlashQuote; a string is       *)
(* returned between braces only when the scan ended with braceCount 0.     *)
CloseBraceAtDepthZero ==
  /\ qpc = "scan"
  /\ i < Len(asArray)
  /\ asArray[i + 1] = <<CloseBrace>>
  /\ braceCount = 0

C26_BraceCountNeverNegative ==
  /\ [](braceCount >= 0)
  /\ [][CloseBraceAtDepthZero => (braceCount' = 0 /\ requireSlashQuote' /\ qpc' = "afterScan")]_vars
  /\ []((qpc = "returned" /\ s # <<>> /\ result = Braced(s)) =>
          (braceCount = 0 /\ ~requireSlashQuote /\ i >= Len(asArray)))

(* "a}" : the close brace is met at depth 0; the scan is left there with   *)
(* the counter at 0.                                                       *)
C26_Witness ==
  /\ qpc = "afterScan"
  /\ s = <<97, CloseBrace>>
  /\ i = 1
  /\ braceCount = 0
  /\ requireSlashQuote
  /\ requireBraceQuote

(* The classification loop without the break of lines 139-141.             *)
RECURSIVE ScanToEnd(_, _)
ScanToEnd(array, st) ==
  IF ~(st.i < Len(array)) THEN st
  ELSE LET after == ScanCharacter(array, st)
       IN  ScanToEnd(array, [after EXCEPT !.i = after.i + 1])

(* C27: the scan with the break and the scan that visits every code point  *)
(* lead to the same choice of quoting and to the same output.              *)
C27_EarlyExitSameResult ==
  (pc = "returned" /\ IsSingle("string") /\ list[1].val # <<>>) =>
    LET str == list[1].val
        start == [i |-> 0, requireSlashQuote |-> FALSE, requireBraceQuote |-> FALSE,
                  braceCount |-> 0]
        early == Scan(ArrayFrom(str), start)
        full == ScanToEnd(ArrayFrom(str), start)
    IN  /\ ThreeWay(early) = ThreeWay(full)
        /\ output = QuoteDecision(str, full)
        /\ early.requireSlashQuote => full.requireSlashQuote

(* Two spaces after DEL: the scan is left at the first code point with     *)
(* requireBraceQuote not set, the full scan sets it.                       *)
C27_Witness ==
  /\ pc = "returned"
  /\ list = <<Text(<<Delete, Space, Space>>)>>
  /\ output = <<Backslash, 120, 55, 102, Backslash, Space, Backslash, Space>>
  /\ ScanOf(ArrayFrom(list[1].val)).i = 0
  /\ ~ScanOf(ArrayFrom(list[1].val)).requireBraceQuote

(* C28: every element string is non-empty, at every depth, so the          *)
(* accumulated result is non-empty after the first element and each later  *)
(* element is added after exactly one separator.                           *)
C28_ElementsNonEmpty ==
  pc = "returned" =>
    /\ \A k \in 1..Len(list) : encodeTclListElement(list[k]) # <<>>
    /\ \A v \in NestedIn(list) : \A k \in 1..Len(v.val) :
         encodeTclListElement(v.val[k]) # <<>>
    /\ \A k \in 1..Len(list) :
         LET before == tclList(SubSeq(list, 1, k - 1))
             after == tclList(SubSeq(list, 1, k))
         IN  /\ after # <<>>
             /\ after = IF k = 1 THEN encodeTclListElement(list[k])
                        ELSE before \o <<Space>> \o encodeTclListElement(list[k])
             /\ k = Len(list) => output = after

(* The empty text, the empty list and a number. *)
C28_Witness ==
  /\ pc = "returned"
  /\ list = <<Text(<<>>), Iterable(<<>>), Number(0)>>
  /\ output = <<OpenBrace, CloseBrace, Space, OpenBrace, CloseBrace, Space, 48>>

(* Texts put after a list's items to make more lists.                      *)
MoreItems ==
  {Text(<<CloseBrace>>), Text(<<Newline>>), Text(<<97, Backslash>>), Text(<<Backslash, 1>>)}

(* tclQuote of the serialized list inner is inner itself, "{}" for the     *)
(* empty one, or inner between braces: never the backslash quoted form.    *)
NestsVerbatim(inner) ==
  LET quoted == tclQuote(inner)
  IN  /\ ~SlashQuoteChosen(inner)
      /\ quoted \in {inner, Braced(inner)}
      /\ inner = <<>> => quoted = <<OpenBrace, CloseBrace>>
      /\ Len(quoted) <= Len(inner) + 2

(* C29: a serialized list is nested without backslash quoting: tclQuote    *)
(* of tclList(L) is tclList(L), "{}" or tclList(L) between braces, so a    *)
(* nesting level adds at most 2 characters.                                *)
C29_NestedVerbatim ==
  pc = "returned" =>
    /\ NestsVerbatim(output)
    /\ \A more \in MoreItems :
         LET longer == tclListFrom(output, <<more>>)
         IN  NestsVerbatim(longer)

(* A list that holds a backslash quoted element is nested between braces.  *)
C29_Witness ==
  /\ pc = "returned"
  /\ list = <<Iterable(<<Text(<<OpenBrace>>), Text(<<Backslash>>)>>)>>
  /\ output = <<OpenBrace, Backslash, OpenBrace, Space, Backslash, Backslash, CloseBrace>>

(* C30: quoting an output of tclQuote again never gives the backslash      *)
(* quoted form: tclQuote(tclQuote(str)) is tclQuote(str) when tclQuote     *)
(* left str unchanged, and tclQuote(str) between braces otherwise.         *)
C30_RequoteBraces ==
  (pc = "returned" /\ IsSingle("string")) =>
    /\ ~SlashQuoteChosen(output)
    /\ tclQuote(output) = IF output = list[1].val THEN output ELSE Braced(output)

(* A backslash quoted output, quoted again. *)
C30_Witness ==
  /\ pc = "returned"
  /\ calls = 2
  /\ list = <<Text(<<Backslash, CloseBrace, Backslash, Backslash>>)>>
  /\ output = <<OpenBrace, Backslash, CloseBrace, Backslash, Backslash, CloseBrace>>

=============================================================================
